---- MODULE Spec2Model ----
(***************************************************************************)
(* Staging -> completeness validation -> canonical promotion pipeline of   *)
(* the EirGrid ingestion repository (src/ingest, src/pipeline), together   *)
(* with the HTTP retry loop of the fetcher.                                *)
(*                                                                         *)
(* Time.  An instant is a number of minutes since 2025-01-01T00:00:00Z.    *)
(* A timestamp TEXT ("%Y-%m-%dT%H:%M:%SZ") is the tuple <<D, H, M>> of its *)
(* fixed-width fields: D is the zero-based ordinal of the date in 2025     *)
(* (it stands for the "YYYY-MM-DD" prefix, whose string order is the date  *)
(* order), H the hour and M the minute; the seconds field is always "00".  *)
(* SQLite compares these texts as strings, i.e. field by field.            *)
(***************************************************************************)
EXTENDS Integers, Sequences, FiniteSets, Bags, TLC

VARIABLES
    stg_readings,   \* table stg_readings: rows in rowid order
    fact_readings,  \* table fact_readings as committed on disk: a bag of rows
    tx,             \* the promoting connection's open transaction, if any
    pc,             \* the promotion call in progress, if any
    last,           \* outcome of the last promote_day_delete_insert since staging changed
    nstage,         \* number of stage_readings calls made so far
    ing,            \* what the last stage_readings / fetch_one_day call was given and did
    fact_forecasts, \* table fact_forecasts as committed on disk: a set of rows
    fc,             \* the store_forecast_dataframe call in progress and the last one made
    fr,             \* the forecast run (daily or backfill) in progress and the last one made
    cal,            \* the local day whose slot count and windows are derived
    rq,             \* one request_with_retry call
    fm              \* one forecast_all_metrics_next_day call for one metric

vars == <<stg_readings, fact_readings, tx, pc, last, nstage, ing,
          fact_forecasts, fc, fr, cal, rq, fm>>

etlvars == <<stg_readings, fact_readings, tx, pc, last, nstage, ing>>
fcvars == <<fact_forecasts, fc, fr>>
dbvars == <<etlvars, fcvars>>

(***************************************************************************)
(* Bounds of the model.                                                    *)
(***************************************************************************)
MaxDay == 364        \* calendar days 0..MaxDay are examined
MaxStages == 2       \* stage_readings calls per behaviour
MaxPartial == 1      \* rows an executemany may insert before it fails
MaxRuns == 3         \* consecutive promotions of one day that are counted
MaxBackfillDays == 2 \* length of the longest backfill window
MaxCalls == 2        \* store_forecast_dataframe calls per behaviour
MaxFrameRows == 2
MaxForecastRuns == 2    \* rows of a forecast frame
OffGridMinutes == 7  \* how late the off-grid reading of a batch is stamped
ScriptLen == 4       \* responses the HTTP source has lined up

(***************************************************************************)
(* Europe/Dublin in 2025 and the 15 minute cadence.                        *)
(***************************************************************************)
MinutesPerDay == 1440
MinutesPerHour == 60
SlotMinutes == 15            \* freq="15min"
SpringForwardDay == 88       \* 2025-03-30: 01:00 GMT -> 02:00 IST
FallBackDay == 298           \* 2025-10-26: 02:00 IST -> 01:00 GMT
SummerOffset == 60           \* IST = UTC+1
OrdinarySlots == 96
SpringSlots == 92
FallSlots == 100

\* utcoffset() of a wall-clock reading in Europe/Dublin with fold=0: a
\* reading in the spring gap takes the offset before the change, a reading in
\* the autumn overlap its first occurrence.
UtcOffset(wall) ==
    IF /\ wall >= SpringForwardDay * MinutesPerDay + 2 * MinutesPerHour
       /\ wall <  FallBackDay * MinutesPerDay + 2 * MinutesPerHour
    THEN SummerOffset ELSE 0

\* datetime(y, m, d, 0, 0, 0, tzinfo=tz): the wall-clock reading at local midnight
StartLocal(day) == day * MinutesPerDay

\* start_local + timedelta(days=1): arithmetic on an aware datetime is
\* wall-clock arithmetic, the tzinfo is kept
EndLocal(day) == StartLocal(day) + MinutesPerDay

\* .astimezone(ZoneInfo("UTC")): the instant of a wall-clock reading
AsUtc(wall) == wall - UtcOffset(wall)

\* pd.NaT, the timestamp tz_localize(ambiguous="NaT") leaves for a wall-clock
\* reading that occurs twice
NaT == -1

\* the TEXT column value sqlite3 stores for a missing string: SQL NULL
NullText == <<>>

\* .strftime("%Y-%m-%dT%H:%M:%SZ") of a UTC instant; .dt.strftime leaves NaN
\* for NaT, which sqlite3 binds as NULL
StrfUtc(inst) ==
    IF inst = NaT THEN NullText
    ELSE <<inst \div MinutesPerDay,
           (inst % MinutesPerDay) \div MinutesPerHour,
           inst % MinutesPerHour>>

\* pd.to_datetime(text, utc=True)
ParseUtc(text) == text[1] * MinutesPerDay + text[2] * MinutesPerHour + text[3]

\* ts.isoformat().replace("+00:00", "Z") of a parsed timestamp
IsoFormatZ(inst) ==
    <<inst \div MinutesPerDay,
      (inst % MinutesPerDay) \div MinutesPerHour,
      inst % MinutesPerHour>>

\* SQLite's a < b on two timestamp TEXTs
TextLess(a, b) ==
    \/ a[1] < b[1]
    \/ a[1] = b[1] /\ a[2] < b[2]
    \/ a[1] = b[1] /\ a[2] = b[2] /\ a[3] < b[3]

\* WHERE ts_utc >= ? AND ts_utc < ? (a comparison with NULL is not true)
InWindow(ts, w) ==
    /\ ts # NullText
    /\ ~TextLess(ts, w.start_utc)
    /\ TextLess(ts, w.end_utc)

\* the wall-clock reading of Europe/Dublin at a UTC instant, which the source
\* reports as EffectiveTime
LocalOf(inst) ==
    IF /\ inst >= SpringForwardDay * MinutesPerDay + MinutesPerHour
       /\ inst <  FallBackDay * MinutesPerDay + MinutesPerHour
    THEN inst + SummerOffset ELSE inst

\* .dt.tz_localize(ZoneInfo(local_tz), nonexistent="shift_forward",
\* ambiguous="NaT").dt.tz_convert("UTC"): a reading inside the spring gap
\* moves to the end of the gap, a reading inside the autumn overlap becomes NaT
Localize(wall) ==
    IF /\ wall >= SpringForwardDay * MinutesPerDay + MinutesPerHour
       /\ wall <  SpringForwardDay * MinutesPerDay + 2 * MinutesPerHour
    THEN SpringForwardDay * MinutesPerDay + MinutesPerHour
    ELSE IF /\ wall >= FallBackDay * MinutesPerDay + MinutesPerHour
            /\ wall <  FallBackDay * MinutesPerDay + 2 * MinutesPerHour
    THEN NaT
    ELSE wall - UtcOffset(wall)

\* pd.date_range(start, end, freq="15min", inclusive="left") on two aware
\* endpoints: the instants start, start+15min, ... that lie before end
DateRange(startInst, endInst) ==
    {t \in startInst..(endInst - 1) : (t - startInst) % SlotMinutes = 0}

promote_complete_days_24h(day) == OrdinarySlots

promote_complete_days(day) ==
    Cardinality(DateRange(AsUtc(StartLocal(day)), AsUtc(EndLocal(day))))

\* the start_utc/end_utc strings of distinct_slot_coverage
CoverageWindowNaive(day) ==
    [start_utc |-> StrfUtc(AsUtc(StartLocal(day))),
     end_utc   |-> StrfUtc(AsUtc(StartLocal(day)) + MinutesPerDay)]

CoverageWindow(day) ==
    [start_utc |-> StrfUtc(AsUtc(StartLocal(day))),
     end_utc   |-> StrfUtc(AsUtc(EndLocal(day)))]

\* the start_utc/end_utc strings of build_canonical_slice_for_day
SliceWindowEmpty(day) ==
    [start_utc |-> StrfUtc(AsUtc(StartLocal(day))),
     end_utc   |-> StrfUtc(AsUtc(StartLocal(day)))]

SliceWindow(day) ==
    [start_utc |-> StrfUtc(AsUtc(StartLocal(day))),
     end_utc   |-> StrfUtc(AsUtc(EndLocal(day)))]

DeleteWindowUtcDay(day) ==
    [start_utc |-> <<day, 0, 0>>, end_utc |-> <<day + 1, 0, 0>>]

\* the start_utc/end_utc strings of promote_day_delete_insert
DeleteWindow(day) ==
    [start_utc |-> StrfUtc(AsUtc(StartLocal(day))),
     end_utc   |-> StrfUtc(AsUtc(EndLocal(day)))]

(***************************************************************************)
(* Calendar: slot count and UTC windows of one local day.                  *)
(***************************************************************************)
CalDays == 0..MaxDay

NoWindow == [start_utc |-> <<0, 0, 0>>, end_utc |-> <<0, 0, 0>>]

CalInit ==
    \E d \in CalDays :
        cal = [day |-> d, phase |-> "new", expected_slots |-> 0,
               coverage |-> NoWindow, slice |-> NoWindow, delete |-> NoWindow]

\* promote_complete_days(day_local)
CalExpected ==
    /\ cal.phase = "new"
    /\ cal' = [cal EXCEPT !.phase = "counted",
                          !.expected_slots = promote_complete_days(cal.day)]

\* the window computations of distinct_slot_coverage,
\* build_canonical_slice_for_day and promote_day_delete_insert for the day
CalWindows ==
    /\ cal.phase = "counted"
    /\ cal' = [cal EXCEPT !.phase = "windowed",
                          !.coverage = CoverageWindow(cal.day),
                          !.slice = SliceWindow(cal.day),
                          !.delete = DeleteWindow(cal.day)]

(***************************************************************************)
(* Fetcher: request_with_retry against a source whose next responses are   *)
(* rq.script; every response body has rq.body_len characters.              *)
(***************************************************************************)
MAX_RETRIES == 3
BACKOFF_S == <<1, 2, 4>>
BodyHeadLen == 200           \* response.text[:200]
Statuses == {200, 404, 503}
NoResponse == 0              \* requests.get raised: there is no status code
BodyLens == {150, 250}

Min(a, b) == IF a < b THEN a ELSE b

IsServerErrorAlso4xx(status) == 400 <= status /\ status <= 599

\* 500 <= response.status_code <= 599
IsServerError(status) == 500 <= status /\ status <= 599

RECURSIVE SeqsOf(_, _)
SeqsOf(S, n) ==
    IF n = 0 THEN {<<>>}
    ELSE {Append(q, x) : q \in SeqsOf(S, n - 1), x \in S}

RqIdle == [script |-> <<>>, body_len |-> 0, attempt |-> 0, requests |-> 0,
           sleeps |-> <<>>, outcome |-> "running",
           err_status |-> 0, err_body |-> 0]

RqInit ==
    \E sc \in SeqsOf(Statuses, ScriptLen), bl \in BodyLens :
        rq = [RqIdle EXCEPT !.script = sc, !.body_len = bl]

\* a source that may also fail to answer: timeout or connection error
RqNetInit ==
    \E sc \in SeqsOf(Statuses \cup {NoResponse}, ScriptLen), bl \in BodyLens :
        rq = [RqIdle EXCEPT !.script = sc, !.body_len = bl]

GetRaisesNever(status) == FALSE

\* requests.get raises instead of returning a response; nothing in
\* request_with_retry catches the exception
GetRaises(status) == status = NoResponse

BackoffFirst(attempt) == BACKOFF_S[1]

\* wait = BACKOFF_S[attempt], attempt counted from 0
BackoffOf(attempt) == BACKOFF_S[attempt + 1]

NextAttemptStuck(attempt) == attempt

\* the next value "for attempt in range(MAX_RETRIES)" takes
NextAttempt(attempt) == attempt + 1

\* one pass through the body of "for attempt in range(MAX_RETRIES)"
RqAttempt ==
    /\ rq.outcome = "running"
    /\ rq.attempt < MAX_RETRIES
    /\ rq.requests < Len(rq.script)
    /\ LET status == rq.script[rq.requests + 1] IN
       IF GetRaises(status)
       THEN rq' = [rq EXCEPT !.requests = @ + 1, !.outcome = "RequestException"]
       ELSE IF status = 200
       THEN rq' = [rq EXCEPT !.requests = @ + 1, !.outcome = "returned"]
       ELSE IF IsServerError(status)
       THEN rq' = [rq EXCEPT !.requests = @ + 1,
                             !.sleeps = Append(@, BackoffOf(rq.attempt)),
                             !.attempt = NextAttempt(@)]
       ELSE rq' = [rq EXCEPT !.requests = @ + 1,
                             !.outcome = "RequestFailed",
                             !.err_status = status,
                             !.err_body = Min(rq.body_len, BodyHeadLen)]

\* the loop ran out: raise RuntimeError("Exhausted retries without success.")
RqExhausted ==
    /\ rq.outcome = "running"
    /\ rq.attempt = MAX_RETRIES
    /\ rq' = [rq EXCEPT !.outcome = "RetriesExhausted"]

(***************************************************************************)
(* Warehouse: stg_readings, fact_readings and the dimension tables.        *)
(***************************************************************************)
\* dim_metric / dim_region as seeded by seed_dimensions (AUTOINCREMENT ids in
\* insertion order); get_dim_maps turns them into code -> id dictionaries
metric_map == [wind_actual |-> 1, solar_actual |-> 2, demand_actual |-> 3]
region_map == [ALL |-> 1]

\* alphabetical order of the codes, the order sort_values puts them in
CodeRank == [demand_actual |-> 1, solar_actual |-> 2, wind_actual |-> 3, ALL |-> 1]

DEFAULT_REGION == "ALL"

\* values of the value column that are no number: SQL NULL (None / NaN on
\* the Python side) and a text; NaN is what the coercion turns both into
NullValue == -1
TextValue == -2
NaN == -1
Source == "smartgriddashboard_api"

\* the local days the pipeline is run for: the spring-forward day and the
\* summer-time day after it
Days == {SpringForwardDay, SpringForwardDay + 1}

\* the date ranges promote_range_delete_insert is run for
Ranges == {<<SpringForwardDay, SpringForwardDay + 1>>}

\* readings of the wall clock (datetime.now), second precision; the wall
\* clock is not monotone
Clock == {1, 2}

\* reading of the wall clock when a promotion stamps its rows
PromoteClock == {3}

\* what the source reports: value 10 to a fetch at clock 1, 20 at clock 2
Readings == {<<10, 1>>, <<20, 2>>}

\* shapes of a tidy batch for one local day and one metric:
\*   full    : one reading for each quarter hour of the local day
\*   gap     : the reading of the second quarter hour is missing
\*   offgrid : the reading of the second quarter hour is stamped 7 minutes late
Batches ==
    {[day |-> SpringForwardDay, metric |-> m, shape |-> sh] :
        m \in {"wind_actual", "solar_actual"}, sh \in {"full", "gap"}}
    \cup {[day |-> SpringForwardDay, metric |-> "wind_actual", shape |-> "offgrid"],
          [day |-> SpringForwardDay + 1, metric |-> "wind_actual", shape |-> "full"]}

\* the instants of the rows of a tidy batch, sorted as tidy_raw_df leaves them
BatchInstants(b) ==
    LET s == AsUtc(StartLocal(b.day))
        e == AsUtc(EndLocal(b.day))
        n == (e - s) \div SlotMinutes
    IN  CASE b.shape = "full" ->
                [k \in 1..n |-> s + (k - 1) * SlotMinutes]
          [] b.shape = "gap" ->
                [k \in 1..(n - 1) |->
                    IF k = 1 THEN s ELSE s + k * SlotMinutes]
          [] b.shape = "offgrid" ->
                [k \in 1..n |->
                    IF k = 2 THEN s + SlotMinutes + OffGridMinutes
                    ELSE s + (k - 1) * SlotMinutes]

NoTx == [open |-> FALSE, rows |-> EmptyBag]
\* the counters of promote_range_delete_insert before its loop
NoSummary == [days_attempted |-> 0, days_succeeded |-> 0, rows_total |-> 0]
Idle == [step |-> "idle", caller |-> "none", from |-> -1, day |-> -1, until |-> -1,
         canon |-> <<>>, summary |-> NoSummary]
NoCall == [day |-> -1, outcome |-> "none", inserted |-> 0, nstg |-> 0, runs |-> 0]

Range(q) == {q[i] : i \in 1..Len(q)}

\* FIELDNAME_TO_METRIC: the allow-list of field names and their metric codes
FIELDNAME_TO_METRIC ==
    [WIND_ACTUAL |-> "wind_actual", SOLAR_ACTUAL |-> "solar_actual",
     DEMAND_ACTUAL |-> "demand_actual", SYSTEM_DEMAND |-> "demand_actual"]

\* the field name under which the source reports the metric of a batch
FieldOf == [wind_actual |-> "WIND_ACTUAL", solar_actual |-> "SOLAR_ACTUAL"]

\* payloads of one day: every row under its field name, the third row under
\* a field name the pipeline does not know, or no row at all
FieldShapes == {"known", "unknown", "empty"}

\* parse_json_to_raw_df: the raw frame of a payload; EffectiveTime is the
\* local wall-clock reading of the instant the row is about
RawRows(b, fields, value) ==
    LET inst == BatchInstants(b) IN
    IF fields = "empty" THEN <<>>
    ELSE [k \in 1..Len(inst) |->
            [FieldName |-> IF fields = "unknown" /\ k = 3 THEN "WIND_FORECAST"
                           ELSE FieldOf[b.metric],
             EffectiveTime |-> LocalOf(inst[k]), Region |-> DEFAULT_REGION,
             Value |-> value]]

\* the columns of the tidy frame for the rows of a raw frame
TidyRows(df_raw) ==
    [k \in 1..Len(df_raw) |->
        [ts_utc |-> Localize(df_raw[k].EffectiveTime),
         metric |-> FIELDNAME_TO_METRIC[df_raw[k].FieldName],
         region |-> df_raw[k].Region, value |-> df_raw[k].Value]]

\* .sort_values("ts_utc") of a frame whose rows come in time order: the rows
\* with a timestamp keep their order, the NaT rows go last
SortTsUtc(rows) ==
    SelectSeq(rows, LAMBDA r : r.ts_utc # NaT)
        \o SelectSeq(rows, LAMBDA r : r.ts_utc = NaT)

tidy_raw_df_lenient(df_raw) ==
    [status |-> "ok",
     rows |-> SortTsUtc(TidyRows(
                 SelectSeq(df_raw,
                     LAMBDA r : r.FieldName \in DOMAIN FIELDNAME_TO_METRIC)))]

\* tidy_raw_df: raise on a field name outside the allow-list, else the tidy
\* frame, ts_utc in UTC and sorted
tidy_raw_df(df_raw) ==
    IF \E k \in 1..Len(df_raw) : df_raw[k].FieldName \notin DOMAIN FIELDNAME_TO_METRIC
    THEN [status |-> "UnknownMetric", rows |-> <<>>]
    ELSE [status |-> "ok", rows |-> SortTsUtc(TidyRows(df_raw))]

\* the tidy frame fetch_one_day hands to stage_readings for a batch
TidyFrame(b, value) == tidy_raw_df(RawRows(b, "known", value)).rows

\* str(df_tidy["ts_utc"].dtype.tz) of a frame; "naive" when the dtype has no tz
TzLabels == {"UTC", "naive", "Europe/Dublin"}

TzCheckAwareOnly(tz) == IF tz = "naive" THEN "NotUTC" ELSE "ok"

\* the two timezone checks of stage_readings
TzCheck(tz) ==
    IF tz = "naive" THEN "NotUTC"
    ELSE IF tz \notin {"UTC", "UTC+00:00"} THEN "NotUTC"
    ELSE "ok"

NoIngest == [op |-> "none", tz |-> "none", fieldnames |-> {}, outcome |-> "none",
             rows |-> 0]

\* rows stage_readings builds from a tidy frame: ts_utc formatted, source and
\* one ingested_at for the whole batch
StageRows(df_tidy, now) ==
    [k \in 1..Len(df_tidy) |->
        [ts_utc |-> StrfUtc(df_tidy[k].ts_utc), metric_code |-> df_tidy[k].metric,
         region_code |-> df_tidy[k].region, value |-> df_tidy[k].value,
         source |-> Source, ingested_at |-> now]]

\* the table stg_readings of db/schema.sql, as the staging contract has it:
\* a pure append whose only check is the timezone, so every row is taken
StgAccepts(row) == TRUE

\* what a stage_readings call does to the tables: nothing when a check
\* raises or the table refuses a row, else executemany INSERT INTO
\* stg_readings, committed by the with block of its own connection
StageEffect(df_tidy, tz, now, report) ==
    IF TzCheck(tz) # "ok"
    THEN /\ ing' = [report EXCEPT !.outcome = TzCheck(tz), !.rows = 0]
         /\ UNCHANGED <<stg_readings, last>>
    ELSE IF \E k \in 1..Len(df_tidy) : ~StgAccepts(StageRows(df_tidy, now)[k])
    THEN /\ ing' = [report EXCEPT !.outcome = "IntegrityError", !.rows = 0]
         /\ UNCHANGED <<stg_readings, last>>
    ELSE /\ stg_readings' = stg_readings \o StageRows(df_tidy, now)
         /\ ing' = [report EXCEPT !.outcome = "ok", !.rows = Len(df_tidy)]
         /\ last' = NoCall

stage_readings_replace(df_tidy, tz, now) ==
    /\ pc.step = "idle"
    /\ nstage < MaxStages
    /\ stg_readings' = StageRows(df_tidy, now)
    /\ ing' = [NoIngest EXCEPT !.op = "stage", !.tz = tz, !.outcome = "ok",
                               !.rows = Len(df_tidy)]
    /\ last' = NoCall
    /\ nstage' = nstage + 1
    /\ UNCHANGED <<fact_readings, tx, pc>>

\* stage_readings(df_tidy)
stage_readings(df_tidy, tz, now) ==
    /\ pc.step = "idle"
    /\ nstage < MaxStages
    /\ StageEffect(df_tidy, tz, now, [NoIngest EXCEPT !.op = "stage", !.tz = tz])
    /\ nstage' = nstage + 1
    /\ UNCHANGED <<fact_readings, tx, pc>>

\* the body of fetch_one_day(day_local, areas) once request_with_retry has
\* returned the payload: parse, return 0 on an empty day, tidy, stage
FetchEffect(b, fields, value, now) ==
    LET raw == RawRows(b, fields, value)
        tidy == tidy_raw_df(raw)
        report == [NoIngest EXCEPT !.op = "fetch", !.tz = "UTC",
                      !.fieldnames = {raw[k].FieldName : k \in 1..Len(raw)}]
    IN  /\ nstage < MaxStages
        /\ IF Len(raw) = 0
           THEN /\ ing' = [report EXCEPT !.outcome = "ok", !.rows = 0]
                /\ UNCHANGED <<stg_readings, last>>
           ELSE IF tidy.status # "ok"
           THEN /\ ing' = [report EXCEPT !.outcome = tidy.status, !.rows = 0]
                /\ UNCHANGED <<stg_readings, last>>
           ELSE StageEffect(tidy.rows, "UTC", now, report)
        /\ nstage' = nstage + 1

\* fetch_one_day called on its own
fetch_one_day(b, fields, value, now) ==
    /\ pc.step = "idle"
    /\ FetchEffect(b, fields, value, now)
    /\ UNCHANGED <<fact_readings, tx, pc>>

(***************************************************************************)
(* Completeness check and canonical slice.                                 *)
(***************************************************************************)
IsCompleteLoose(distinct_slots, expected_slots) == distinct_slots >= expected_slots - 1

\* df["is_complete"] = df["distinct_slots"] == df["expected_slots"]
IsComplete(distinct_slots, expected_slots) == distinct_slots = expected_slots

CountRows(rows) == Cardinality(rows)

\* COUNT(DISTINCT ts_utc) of the rows of a group
CountDistinct(rows) == Cardinality({r.ts_utc : r \in rows})

\* distinct_slot_coverage: one report per (metric_code, region_code) group
\* that has a staging row in the day's window
distinct_slot_coverage(stg, day) ==
    LET w == CoverageWindow(day)
        rows == Range(SelectSeq(stg, LAMBDA r : InWindow(r.ts_utc, w)))
        groups == {<<r.metric_code, r.region_code>> : r \in rows}
        expected == promote_complete_days(day)
    IN  [g \in groups |->
            LET distinct == CountDistinct(
                              {x \in rows : <<x.metric_code, x.region_code>> = g})
            IN  [distinct_slots |-> distinct,
                 expected_slots |-> expected,
                 missing |-> expected - distinct,
                 is_complete |-> IsComplete(distinct, expected)]]

SupersedesOlder(new, old) == new.ingested_at <= old.ingested_at

\* sort_values([..., "ingested_at"]) is stable and tail(1) takes the last row
\* of a slot: a row replaces the one kept so far unless it was ingested earlier
Supersedes(new, old) == new.ingested_at >= old.ingested_at

\* sort + groupby(["ts_utc", "metric_code", "region_code"]).tail(1): the kept
\* row of every slot among rows[lo..hi] in scan order (the rows of the two
\* halves are compared slot by slot, the later half superseding)
RECURSIVE LatestPerSlot(_, _, _)
LatestPerSlot(rows, lo, hi) ==
    IF lo > hi THEN <<>>
    ELSE IF lo = hi
    THEN LET r == rows[lo] IN
         (<<ParseUtc(r.ts_utc), r.metric_code, r.region_code>> :> r)
    ELSE LET mid == (lo + hi) \div 2
             a == LatestPerSlot(rows, lo, mid)
             b == LatestPerSlot(rows, mid + 1, hi)
         IN  [k \in DOMAIN a \cup DOMAIN b |->
                 IF k \notin DOMAIN a THEN b[k]
                 ELSE IF k \notin DOMAIN b THEN a[k]
                 ELSE IF Supersedes(b[k], a[k]) THEN b[k] ELSE a[k]]

\* pd.to_numeric(value, errors="coerce"): NaN for NULL and for text that is
\* no number
ToNumeric(v) == IF v \in {NullValue, TextValue} THEN NaN ELSE v

HasInvalidValueAnyRow(df_latest, rows) ==
    \E i \in 1..Len(rows) : ToNumeric(rows[i].value) = NaN

\* step 6: df_latest["value"].isna().any() after the coercion; rows are the
\* selected staging rows df_latest was taken from
HasInvalidValue(df_latest, rows) ==
    \E k \in DOMAIN df_latest : ToNumeric(df_latest[k].value) = NaN

MapDimsDropUnknown(df_latest) ==
    LET known == {k \in DOMAIN df_latest :
                     /\ df_latest[k].metric_code \in DOMAIN metric_map
                     /\ df_latest[k].region_code \in DOMAIN region_map}
    IN  [status |-> "ok",
         rows |-> [k \in known |->
                     [ts_utc |-> k[1],
                      metric_id |-> metric_map[df_latest[k].metric_code],
                      region_id |-> region_map[df_latest[k].region_code],
                      value |-> ToNumeric(df_latest[k].value)]]]

\* steps 7 and 8: map the codes to ids, raise on a code the dimension tables
\* do not have, return ts_utc, metric_id, region_id, value
MapDims(df_latest) ==
    IF \E k \in DOMAIN df_latest :
          \/ df_latest[k].metric_code \notin DOMAIN metric_map
          \/ df_latest[k].region_code \notin DOMAIN region_map
    THEN [status |-> "UnknownDimension", rows |-> <<>>]
    ELSE [status |-> "ok",
          rows |-> [k \in DOMAIN df_latest |->
                      [ts_utc |-> k[1],
                       metric_id |-> metric_map[df_latest[k].metric_code],
                       region_id |-> region_map[df_latest[k].region_code],
                       value |-> ToNumeric(df_latest[k].value)]]]

\* build_canonical_slice_for_day: the error raised, or the canonical frame as
\* a function from slot to row (ts_utc still a parsed timestamp)
build_canonical_slice_for_day(stg, day) ==
    LET coverage == distinct_slot_coverage(stg, day)
        w == SliceWindow(day)
        rows == SelectSeq(stg, LAMBDA r : InWindow(r.ts_utc, w))
        df_latest == LatestPerSlot(rows, 1, Len(rows))
    IN  IF \E g \in DOMAIN coverage : ~coverage[g].is_complete
        THEN [status |-> "IncompleteDay", rows |-> <<>>]
        ELSE IF rows = <<>>
        THEN [status |-> "ok", rows |-> <<>>]
        ELSE IF HasInvalidValue(df_latest, rows)
        THEN [status |-> "InvalidValue", rows |-> <<>>]
        ELSE MapDims(df_latest)

(***************************************************************************)
(* Promotion: delete + insert in one transaction of the connection.        *)
(***************************************************************************)

\* what a statement on the connection sees: its open transaction, else the
\* committed table
View(f, t) == IF t.open THEN t.rows ELSE f

DeleteNothing(b, w) == b

DeleteRowsInclusive(b, w) ==
    LET keep == {r \in DOMAIN b :
                    ~InWindow(r.ts_utc, w) /\ r.ts_utc # w.end_utc} IN
    IF keep = {} THEN EmptyBag ELSE [r \in keep |-> b[r]]

\* DELETE FROM fact_readings WHERE ts_utc >= ? AND ts_utc < ?
DeleteRows(b, w) ==
    LET keep == {r \in DOMAIN b : ~InWindow(r.ts_utc, w)} IN
    IF keep = {} THEN EmptyBag ELSE [r \in keep |-> b[r]]

\* one tuple of rows_to_insert
InsertTuple(c, now) ==
    [ts_utc |-> IsoFormatZ(c.ts_utc), metric_id |-> c.metric_id,
     region_id |-> c.region_id, value |-> c.value, ingested_at |-> now]

\* the rows executemany has inserted for the slots keys of the slice
InsertRows(b, canon, keys, now) ==
    LET rows == {InsertTuple(canon[k], now) : k \in keys} IN
    IF Cardinality(rows) = Cardinality(keys)
    THEN b (+) SetToBag(rows)
    ELSE b (+) [r \in rows |-> Cardinality({k \in keys : InsertTuple(canon[k], now) = r})]

\* order of the rows of the canonical frame: ts_utc, metric_code, region_code
SlotBefore(a, b) ==
    \/ a[1] < b[1]
    \/ a[1] = b[1] /\ CodeRank[a[2]] < CodeRank[b[2]]
    \/ a[1] = b[1] /\ a[2] = b[2] /\ CodeRank[a[3]] < CodeRank[b[3]]

\* the slots of the first n rows of the canonical frame
RECURSIVE FirstSlots(_, _)
FirstSlots(keys, n) ==
    IF n = 0 \/ keys = {} THEN {}
    ELSE LET m == CHOOSE k \in keys : \A o \in keys : ~SlotBefore(o, k)
         IN  {m} \cup FirstSlots(keys \ {m}, n - 1)

WithExitCommits(f, t) == View(f, t)

\* "with get_conn() as conn:" left by an exception: the connection rolls back
WithExitRaised(f, t) == f

\* "with get_conn() as conn:" left normally: the connection commits
WithExitReturned(f, t) == View(f, t)

NextOfRangeAbort(raised, inserted) ==
    LET sm == IF raised THEN pc.summary
              ELSE [pc.summary EXCEPT !.days_succeeded = @ + 1,
                                      !.rows_total = @ + inserted]
    IN  IF pc.day < pc.until /\ ~raised
        THEN [pc EXCEPT !.step = "called", !.day = @ + 1, !.canon = <<>>,
                        !.summary = [sm EXCEPT !.days_attempted = @ + 1]]
        ELSE [pc EXCEPT !.step = "end", !.canon = <<>>, !.summary = sm]

\* the loop of promote_range_delete_insert after the call for pc.day raised
\* or returned inserted: count it, move on to the next day or build the summary
NextOfRange(raised, inserted) ==
    LET sm == IF raised THEN pc.summary
              ELSE [pc.summary EXCEPT !.days_succeeded = @ + 1,
                                      !.rows_total = @ + inserted]
    IN  IF pc.day < pc.until
        THEN [pc EXCEPT !.step = "called", !.day = @ + 1, !.canon = <<>>,
                        !.summary = [sm EXCEPT !.days_attempted = @ + 1]]
        ELSE [pc EXCEPT !.step = "end", !.canon = <<>>, !.summary = sm]

\* the loop of backfill_range after run_daily_pipeline(pc.day) raised or
\* returned rows
NextOfBackfill(raised, rows) ==
    LET sm == IF raised THEN pc.summary
              ELSE [pc.summary EXCEPT
                       !.days_succeeded = @ + 1,
                       !.rows_total = @ + rows,
                       !.rows_by_day = (pc.day :> rows) @@ @]
    IN  IF pc.day < pc.until
        THEN [pc EXCEPT !.step = "fetch", !.day = @ + 1, !.canon = <<>>,
                        !.summary = [sm EXCEPT !.days_attempted = @ + 1]]
        ELSE [pc EXCEPT !.step = "end", !.canon = <<>>, !.summary = sm]

\* promote_day_delete_insert ends, leaving the tables f and the transaction t:
\* run_daily_pipeline leaves its with block (and returns to backfill_range
\* when that called it), promote_range_delete_insert catches what was raised
\* and continues
Finish(f, t, raised, inserted) ==
    IF pc.caller = "range"
    THEN /\ pc' = NextOfRange(raised, inserted)
         /\ fact_readings' = f
         /\ tx' = t
    ELSE /\ pc' = IF pc.caller = "backfill" THEN NextOfBackfill(raised, inserted)
                                             ELSE Idle
         /\ fact_readings' = IF raised THEN WithExitRaised(f, t)
                                       ELSE WithExitReturned(f, t)
         /\ tx' = NoTx

\* run_daily_pipeline step 3: with get_conn() as conn: promote_day_delete_insert
DailyCall(day) ==
    /\ pc.step = "idle"
    /\ pc' = [Idle EXCEPT !.step = "called", !.caller = "daily",
                          !.from = day, !.day = day, !.until = day]
    /\ UNCHANGED <<stg_readings, fact_readings, tx, last, nstage, ing>>

\* promote_range_delete_insert(conn, start_date, end_date) is entered
RangeCall(start_date, end_date) ==
    /\ pc.step = "idle"
    /\ start_date <= end_date
    /\ pc' = [Idle EXCEPT !.step = "called", !.caller = "range",
                          !.from = start_date, !.day = start_date,
                          !.until = end_date,
                          !.summary = [NoSummary EXCEPT !.days_attempted = 1]]
    /\ UNCHANGED <<stg_readings, fact_readings, tx, last, nstage, ing>>

\* promote_day_delete_insert steps 1 and 2: build the slice, return 0 when it
\* is empty, else execute the DELETE
PromoteBuild ==
    /\ pc.step = "called"
    /\ LET canon == build_canonical_slice_for_day(stg_readings, pc.day) IN
       IF canon.status # "ok"
       THEN /\ last' = [day |-> pc.day, outcome |-> canon.status, inserted |-> 0,
                        nstg |-> Len(stg_readings), runs |-> 0]
            /\ Finish(fact_readings, tx, TRUE, 0)
       ELSE IF canon.rows = <<>>
       THEN /\ last' = [day |-> pc.day, outcome |-> "empty", inserted |-> 0,
                        nstg |-> Len(stg_readings), runs |-> 0]
            /\ Finish(fact_readings, tx, FALSE, 0)
       ELSE /\ tx' = [open |-> TRUE,
                      rows |-> DeleteRows(View(fact_readings, tx), DeleteWindow(pc.day))]
            /\ pc' = [pc EXCEPT !.step = "deleted", !.canon = canon.rows]
            /\ UNCHANGED <<fact_readings, last>>
    /\ UNCHANGED <<stg_readings, nstage, ing>>

\* step 3: executemany inserts every row of the slice
PromoteInsert(now) ==
    /\ pc.step = "deleted"
    /\ tx' = [tx EXCEPT !.rows = InsertRows(@, pc.canon, DOMAIN pc.canon, now)]
    /\ pc' = [pc EXCEPT !.step = "inserted"]
    /\ UNCHANGED <<stg_readings, fact_readings, last, nstage, ing>>

\* step 3 fails: executemany raises after n rows (the storage layer refuses a
\* row or the write); the rows already inserted stay in the transaction
PromoteInsertFails(now, n) ==
    /\ pc.step = "deleted"
    /\ n < Cardinality(DOMAIN pc.canon)
    /\ last' = [day |-> pc.day, outcome |-> "InsertError", inserted |-> 0,
                        nstg |-> Len(stg_readings), runs |-> 0]
    /\ Finish(fact_readings,
              [tx EXCEPT !.rows = InsertRows(@, pc.canon,
                                             FirstSlots(DOMAIN pc.canon, n), now)],
              TRUE, 0)
    /\ UNCHANGED <<stg_readings, nstage, ing>>

\* the call in progress follows a promote_day_delete_insert of the same day
\* that returned its rows, with staging unchanged since
InARow ==
    /\ last.outcome = "ok"
    /\ last.day = pc.day
    /\ last.nstg = Len(stg_readings)

\* conn.commit() and return inserted
PromoteCommit ==
    /\ pc.step = "inserted"
    /\ last' = [day |-> pc.day, outcome |-> "ok",
                inserted |-> Cardinality(DOMAIN pc.canon),
                nstg |-> Len(stg_readings),
                runs |-> IF InARow THEN Min(last.runs + 1, MaxRuns) ELSE 1]
    /\ Finish(tx.rows, NoTx, FALSE, Cardinality(DOMAIN pc.canon))
    /\ UNCHANGED <<stg_readings, nstage, ing>>

\* the process dies between the DELETE and the commit: SQLite discards the
\* uncommitted transaction
Crash ==
    /\ pc.step \in {"deleted", "inserted"}
    /\ pc' = Idle
    /\ tx' = NoTx
    /\ UNCHANGED <<stg_readings, fact_readings, last, nstage, ing>>

\* promote_range_delete_insert has returned its summary and its caller leaves
\* "with get_conn() as conn:" normally
RangeReturn ==
    /\ pc.step = "end"
    /\ pc.caller = "range"
    /\ pc' = Idle
    /\ fact_readings' = WithExitReturned(fact_readings, tx)
    /\ tx' = NoTx
    /\ UNCHANGED <<stg_readings, last, nstage, ing>>

(***************************************************************************)
(* The forecast store: models/store_forecasts.py.                          *)
(***************************************************************************)
\* the local day the forecast frames are for: 2025-03-31
ForecastDate == SpringForwardDay + 1

ModelNames == {"prophet_v1", "fallback_slot_median_v1"}
ForecastValues == {10, 20}
TrainDays == {0, 30, 60}
FrameTz == {"naive", "UTC", "Europe/Dublin"}
NegativeIn == {"none", "yhat", "yhat_lower", "yhat_upper"}
ModelColumns == {"absent", "blank", "primary", "fallback", "mixed"}

\* a forecast frame as forecast_all_metrics_next_day hands it over: one row
\* per slot from the start of the day, ds as wall-clock reading in tz, the
\* interval value -+ 5, the last row negative in column neg, the model_name
\* column absent, blank, or naming one or both models
ForecastFrame(value, neg, models, tz) ==
    [tz |-> tz,
     columns |-> {"ds", "yhat", "yhat_lower", "yhat_upper", "metric_code"}
                    \cup (IF models = "absent" THEN {} ELSE {"model_name"}),
     rows |-> [k \in 1..MaxFrameRows |->
                 [ds |-> StartLocal(ForecastDate) + (k - 1) * SlotMinutes,
                  metric_code |-> "wind_actual",
                  yhat |-> IF neg = "yhat" /\ k = MaxFrameRows THEN -1 ELSE value,
                  yhat_lower |-> IF neg = "yhat_lower" /\ k = MaxFrameRows
                                 THEN -1 ELSE value - 5,
                  yhat_upper |-> IF neg = "yhat_upper" /\ k = MaxFrameRows
                                 THEN -1 ELSE value + 5,
                  model_name |-> CASE models \in {"absent", "blank"} -> ""
                                   [] models = "primary" -> "prophet_v1"
                                   [] models = "fallback" -> "fallback_slot_median_v1"
                                   [] OTHER -> IF k = 1 THEN "prophet_v1"
                                               ELSE "fallback_slot_median_v1"]]]

EmptyFrame ==
    [tz |-> "naive",
     columns |-> {"ds", "yhat", "yhat_lower", "yhat_upper", "metric_code"},
     rows |-> <<>>]

Frames ==
    {ForecastFrame(v, neg, models, tz) :
        v \in ForecastValues, neg \in NegativeIn, models \in ModelColumns, tz \in FrameTz}
    \cup {EmptyFrame}

DomainCheckYhatOnly(df) == \E k \in 1..Len(df.rows) : df.rows[k].yhat < 0

\* for col in ("yhat", "yhat_lower", "yhat_upper"): (vals < 0).any()
DomainCheck(df) ==
    \E k \in 1..Len(df.rows) :
        \/ df.rows[k].yhat < 0
        \/ df.rows[k].yhat_lower < 0
        \/ df.rows[k].yhat_upper < 0

\* 1) Validate inputs: the ValueError raised, or "ok"
ValidateForecast(df, train_days) ==
    IF train_days <= 0 THEN "InvalidTrainDays"
    ELSE IF df.rows = <<>> THEN "EmptyFrame"
    ELSE IF DomainCheck(df) THEN "DomainViolation"
    ELSE "ok"

\* 2) ds -> ts_utc: a naive ds is localized as UTC, an aware one converted
TsUtcOf(df, k) ==
    StrfUtc(IF df.tz = "Europe/Dublin" THEN AsUtc(df.rows[k].ds) ELSE df.rows[k].ds)

\* 3) the model_name column: the argument where the column is absent or blank
ModelNameOf(df, k, model_name) ==
    IF "model_name" \notin df.columns THEN model_name
    ELSE IF df.rows[k].model_name = "" THEN model_name
    ELSE df.rows[k].model_name

\* 3) the region_code column, likewise
RegionCodeOf(df, k, region_code) ==
    IF "region_code" \notin df.columns THEN region_code
    ELSE IF df.rows[k].region_code = "" THEN region_code
    ELSE df.rows[k].region_code

\* 4) df_to_write
df_to_write(df, forecast_date, train_days, model_name, region_code, now) ==
    [k \in 1..Len(df.rows) |->
        [forecast_date |-> forecast_date,
         ts_utc |-> TsUtcOf(df, k),
         metric_code |-> df.rows[k].metric_code,
         region_code |-> RegionCodeOf(df, k, region_code),
         train_days |-> train_days,
         yhat |-> df.rows[k].yhat,
         yhat_lower |-> df.rows[k].yhat_lower,
         yhat_upper |-> df.rows[k].yhat_upper,
         generated_utc |-> now,
         model_name |-> ModelNameOf(df, k, model_name)]]

\* df_to_write[["region_code", "model_name"]].drop_duplicates()
delete_groups(w) == {<<w[k].region_code, w[k].model_name>> : k \in 1..Len(w)}

DeletedForecastsNone(rows, forecast_date, groups, train_days) == {}

\* the rows the DELETE statements remove, one statement per group
DeletedForecasts(rows, forecast_date, groups, train_days) ==
    {r \in rows : /\ r.forecast_date = forecast_date
                  /\ <<r.region_code, r.model_name>> \in groups
                  /\ r.train_days = train_days}

NoArgs == [forecast_date |-> -1, train_days |-> 0, model_name |-> "",
           region_code |-> ""]

FcIdle == [step |-> "idle", df |-> EmptyFrame, args |-> NoArgs, rows |-> <<>>,
           deleted |-> {}, tx |-> [open |-> FALSE, rows |-> {}],
           outcome |-> "none", ncall |-> 0]

\* store_forecast_dataframe(df, forecast_date, train_days, model_name,
\* region_code) is entered
ForecastEnter(df, forecast_date, train_days, model_name, region_code) ==
    /\ fc.step = "idle"
    /\ fc' = [FcIdle EXCEPT
                !.step = "called", !.df = df,
                !.args = [forecast_date |-> forecast_date, train_days |-> train_days,
                          model_name |-> model_name, region_code |-> region_code],
                !.ncall = fc.ncall + 1]
    /\ UNCHANGED fact_forecasts

\* store_forecast_dataframe is called on its own
ForecastCall(df, forecast_date, train_days, model_name, region_code) ==
    /\ fc.ncall < MaxCalls
    /\ fr.step = "idle"
    /\ ForecastEnter(df, forecast_date, train_days, model_name, region_code)
    /\ UNCHANGED fr

\* the call validates its input and raises, or builds df_to_write, opens the
\* connection and executes the DELETE statements; generated_utc is the clock
ForecastDelete ==
    /\ fc.step = "called"
    /\ LET v == ValidateForecast(fc.df, fc.args.train_days)
           w == df_to_write(fc.df, fc.args.forecast_date, fc.args.train_days,
                            fc.args.model_name, fc.args.region_code, fc.ncall)
           gone == DeletedForecasts(fact_forecasts, fc.args.forecast_date,
                                    delete_groups(w), fc.args.train_days)
       IN  IF v # "ok"
           THEN fc' = [FcIdle EXCEPT !.outcome = v, !.args = fc.args,
                                     !.ncall = fc.ncall]
           ELSE fc' = [fc EXCEPT !.step = "deleted", !.df = EmptyFrame,
                                 !.rows = w, !.deleted = gone,
                                 !.tx = [open |-> TRUE,
                                         rows |-> fact_forecasts \ gone]]
    /\ UNCHANGED fact_forecasts

\* cur.executemany(insert_sql, rows)
\* the table fact_forecasts of db/schema.sql, as the forecast contract has
\* it: delete by (forecast_date, region_code, model_name, train_days) and
\* bulk insert, with no constraint on the rows of one slot
FcAccepts(row) == TRUE

ForecastInsert ==
    /\ fc.step = "deleted"
    /\ \A k \in 1..Len(fc.rows) : FcAccepts(fc.rows[k])
    /\ fc' = [fc EXCEPT !.step = "inserted",
                        !.tx.rows = @ \cup {fc.rows[k] : k \in 1..Len(fc.rows)}]
    /\ UNCHANGED fact_forecasts

ForecastExitCommits(f, t) == View(f, t)

\* "with get_conn() as conn:" left by an exception: rollback
ForecastExitRaised(f, t) == f

\* executemany raises after n rows: the with block is left by the exception
ForecastInsertFails(n) ==
    /\ fc.step = "deleted"
    /\ n < Len(fc.rows)
    /\ fact_forecasts' =
          ForecastExitRaised(fact_forecasts,
                             [fc.tx EXCEPT !.rows = @ \cup {fc.rows[k] : k \in 1..n}])
    /\ fc' = [fc EXCEPT !.step = "idle", !.outcome = "InsertError",
                        !.tx = FcIdle.tx]

\* conn.commit(), the with block is left and the summary returned
ForecastCommit ==
    /\ fc.step = "inserted"
    /\ fact_forecasts' = fc.tx.rows
    /\ fc' = [fc EXCEPT !.step = "idle", !.outcome = "ok", !.tx = FcIdle.tx]

\* the process dies between DELETE and commit: SQLite rolls the journal back
ForecastCrash ==
    /\ fc.step \in {"deleted", "inserted"}
    /\ fc' = [fc EXCEPT !.step = "idle", !.outcome = "crashed", !.tx = FcIdle.tx]
    /\ UNCHANGED fact_forecasts

(***************************************************************************)
(* The callers of the forecast store: run_daily_forecast_pipeline and one  *)
(* as_of_day of backfill_forecasts_for_range.                              *)
(***************************************************************************)
ForecastCallers == {"daily", "backfill"}

\* default_model_name of both callers
DefaultModelName == "prophet_v1"

\* the model_name column after _ensure_forecast_has_model_name (daily: an
\* absent column and blank cells take the default) or after the stamping of
\* backfill_forecasts_for_range (only an absent column takes it)
EnsureModelName(df, caller) ==
    IF "model_name" \notin df.columns
    THEN [df EXCEPT !.columns = @ \cup {"model_name"},
                    !.rows = [k \in 1..Len(df.rows) |->
                                 [df.rows[k] EXCEPT !.model_name = DefaultModelName]]]
    ELSE IF caller = "daily"
    THEN [df EXCEPT !.rows = [k \in 1..Len(df.rows) |->
                                 IF df.rows[k].model_name = ""
                                 THEN [df.rows[k] EXCEPT !.model_name = DefaultModelName]
                                 ELSE df.rows[k]]]
    ELSE df

\* the keys of df.groupby("model_name", dropna=False), in sorted order
GroupKeys(df) ==
    SelectSeq(<<"", "fallback_slot_median_v1", "prophet_v1">>,
              LAMBDA m : \E k \in 1..Len(df.rows) : df.rows[k].model_name = m)

df_model_whole(df, model_name) == df

\* df_model of the group model_name
df_model(df, model_name) ==
    [df EXCEPT !.rows = SelectSeq(df.rows, LAMBDA r : r.model_name = model_name)]

\* forecast_date as the callers infer it: the date of the smallest ds
InferForecastDate(df) == df.rows[1].ds \div MinutesPerDay

NoModel == "none"

FrIdle == [step |-> "idle", caller |-> "none", df |-> EmptyFrame, train_days |-> 0,
           pending |-> <<>>, current |-> NoModel, summaries |-> <<>>,
           outcome |-> "none", nrun |-> 0]

\* a caller is run with train_days and the forecaster hands it df: the input
\* checks raise, or the model_name column is settled and the loop over the
\* groups begins
ForecastRunStart(caller, df, train_days) ==
    /\ fr.step = "idle"
    /\ fc.step = "idle"
    /\ fr.nrun < MaxForecastRuns
    /\ fr' = IF train_days <= 0
             THEN [FrIdle EXCEPT !.caller = caller, !.outcome = "InvalidInput",
                                 !.nrun = fr.nrun + 1]
             ELSE IF df.rows = <<>>
             THEN [FrIdle EXCEPT !.caller = caller, !.outcome = "EmptyForecast",
                                 !.train_days = train_days, !.nrun = fr.nrun + 1]
             ELSE LET ensured == EnsureModelName(df, caller) IN
                  [FrIdle EXCEPT !.step = "loop", !.caller = caller,
                                 !.df = ensured, !.train_days = train_days,
                                 !.pending = GroupKeys(ensured),
                                 !.outcome = "running", !.nrun = fr.nrun + 1]
    /\ UNCHANGED <<fact_forecasts, fc>>

\* the loop body: store_forecast_dataframe(df=df_model, model_name=str(model_name))
ForecastRunStore ==
    /\ fr.step = "loop"
    /\ fr.current = NoModel
    /\ fr.pending # <<>>
    /\ ForecastEnter(df_model(fr.df, Head(fr.pending)), InferForecastDate(fr.df),
                     fr.train_days, Head(fr.pending), "ALL")
    /\ fr' = [fr EXCEPT !.current = Head(fr.pending), !.pending = Tail(fr.pending)]

\* the call returned its summary, which is appended, or raised: the
\* exception leaves the loop (and the daily run; the backfill records the
\* as_of_day as failed)
ForecastRunCollect ==
    /\ fr.step = "loop"
    /\ fr.current # NoModel
    /\ fc.step = "idle"
    /\ fr' = IF fc.outcome = "ok"
             THEN [fr EXCEPT !.current = NoModel,
                             !.summaries = Append(@,
                                 [model_name |-> fr.current,
                                  rows_deleted_then_inserted |-> Len(fc.rows)])]
             ELSE [fr EXCEPT !.step = "idle", !.current = NoModel,
                             !.pending = <<>>, !.outcome = "failed"]
    /\ UNCHANGED <<fact_forecasts, fc>>

\* the loop is over
ForecastRunReturn ==
    /\ fr.step = "loop"
    /\ fr.current = NoModel
    /\ fr.pending = <<>>
    /\ fr' = [fr EXCEPT !.step = "idle", !.outcome = "ok"]
    /\ UNCHANGED <<fact_forecasts, fc>>

\* get_yesterday_local() when the backfill is run
Yesterday == SpringForwardDay + 1

\* backfill_range(days) is entered on a database nothing has been run on: the
\* window ends yesterday, the loop enters its first day
BackfillStart(days) ==
    /\ pc.step = "idle"
    /\ nstage = 0
    /\ last = NoCall
    /\ days > 0
    /\ pc' = [Idle EXCEPT
                !.step = "fetch", !.caller = "backfill",
                !.from = Yesterday - (days - 1), !.day = Yesterday - (days - 1),
                !.until = Yesterday,
                !.summary = [days_attempted |-> 1, days_succeeded |-> 0,
                             rows_total |-> 0, rows_by_day |-> <<>>,
                             start_date |-> Yesterday - (days - 1),
                             end_date |-> Yesterday]]
    /\ UNCHANGED <<stg_readings, fact_readings, tx, last, nstage, ing>>

\* run_daily_pipeline(day) step 2 under backfill_range: request_with_retry
\* raises and backfill_range catches it
BackfillFetchFails ==
    /\ pc.step = "fetch"
    /\ ing' = [NoIngest EXCEPT !.op = "fetch", !.outcome = "RequestFailed"]
    /\ pc' = NextOfBackfill(TRUE, 0)
    /\ UNCHANGED <<stg_readings, fact_readings, tx, last, nstage>>

SkipsPromotionNever(rows_staged) == FALSE

\* if rows_staged == 0: return 0
SkipsPromotion(rows_staged) == rows_staged = 0

\* run_daily_pipeline(day) step 2 under backfill_range: fetch_one_day raises
\* (caught by backfill_range), returns 0 (run_daily_pipeline returns 0) or
\* stages the payload (run_daily_pipeline goes on to promote)
BackfillFetch(b, fields, value, now) ==
    /\ pc.step = "fetch"
    /\ b.day = pc.day
    /\ FetchEffect(b, fields, value, now)
    /\ pc' = IF ing'.outcome # "ok" THEN NextOfBackfill(TRUE, 0)
             ELSE IF SkipsPromotion(ing'.rows) THEN NextOfBackfill(FALSE, 0)
             ELSE [pc EXCEPT !.step = "called"]
    /\ UNCHANGED <<fact_readings, tx>>

\* fetch_range(start_date, end_date) is entered by a fresh process: the
\* counters are zeroed and the loop enters its first day
FetchRangeCall(start_date, end_date) ==
    /\ pc.step = "idle"
    /\ nstage = 0
    /\ start_date <= end_date
    /\ pc' = [Idle EXCEPT !.step = "fetching", !.caller = "fetch_range",
                          !.from = start_date, !.day = start_date,
                          !.until = end_date,
                          !.summary = [NoSummary EXCEPT !.days_attempted = 1]]
    /\ UNCHANGED <<stg_readings, fact_readings, tx, last, nstage, ing>>

\* fetch_range after fetch_one_day of pc.day: no try surrounds the call, so
\* what it raises leaves the loop and fetch_range; else the counters are
\* updated and the loop goes on or ends
NextOfFetchRange(raised, inserted) ==
    IF raised THEN [pc EXCEPT !.step = "raised"]
    ELSE LET sm == [pc.summary EXCEPT
                       !.rows_total = @ + inserted,
                       !.days_succeeded = IF inserted > 0 THEN @ + 1 ELSE @]
         IN  IF pc.day < pc.until
             THEN [pc EXCEPT !.day = @ + 1,
                             !.summary = [sm EXCEPT !.days_attempted = @ + 1]]
             ELSE [pc EXCEPT !.step = "end", !.summary = sm]

\* one pass of the loop of fetch_range: request_with_retry raises
FetchRangeRequestFails ==
    /\ pc.step = "fetching"
    /\ ing' = [NoIngest EXCEPT !.op = "fetch", !.outcome = "RequestFailed"]
    /\ pc' = NextOfFetchRange(TRUE, 0)
    /\ UNCHANGED <<stg_readings, fact_readings, tx, last, nstage>>

\* one pass of the loop of fetch_range: inserted = fetch_one_day(d, areas)
FetchRangeDay(b, fields, value, now) ==
    /\ pc.step = "fetching"
    /\ b.day = pc.day
    /\ FetchEffect(b, fields, value, now)
    /\ pc' = NextOfFetchRange(ing'.outcome # "ok", ing'.rows)
    /\ UNCHANGED <<fact_readings, tx>>

\* fetch_range has returned its summary or raised, and the process ends
FetchRangeExit ==
    /\ pc.caller = "fetch_range"
    /\ pc.step \in {"end", "raised"}
    /\ pc' = [pc EXCEPT !.step = "exited"]
    /\ UNCHANGED <<stg_readings, fact_readings, tx, last, nstage, ing>>

\* backfill_range has returned its summary and the process ends
BackfillReturn ==
    /\ pc.step = "end"
    /\ pc.caller = "backfill"
    /\ pc' = [pc EXCEPT !.step = "exited"]
    /\ UNCHANGED <<stg_readings, fact_readings, tx, last, nstage, ing>>

(***************************************************************************)
(* The forecaster: history, Prophet with retries, fallback, forecast date. *)
(***************************************************************************)
metric_codes == <<"wind_actual", "solar_actual", "demand_actual">>
DefaultMaxRetries == 2       \* max_retries=2
MinTrainRows == 96           \* fit_prophet needs at least 96 rows
ForecastSteps == 96          \* periods=96
NoDay == -1                  \* as_of_day=None, and a forecast date not yet known

PROPHET == "prophet_v1"
FALLBACK == "fallback_slot_median_v1"

\* max() of a non-empty set of instants
MaxOf(S) == CHOOSE x \in S : \A t \in S : t <= x

\* min() of a non-empty set of instants
MinOf(S) == CHOOSE x \in S : \A t \in S : t >= x

\* SELECT MAX(ts_utc) FROM fact_readings: the greatest TEXT is one of the
\* TEXTs with the greatest date part
MaxDatePart(b) ==
    CHOOSE d \in {r.ts_utc[1] : r \in DOMAIN b} :
        \A e \in {r.ts_utc[1] : r \in DOMAIN b} : e <= d

TextsOn(b, d) == {r.ts_utc : r \in {q \in DOMAIN b : q.ts_utc[1] = d}}

MaxTextOf(C) == CHOOSE t \in C : \A u \in C : ~TextLess(t, u)

MaxTsUtc(b) ==
    CHOOSE t \in {MaxTextOf(C) : C \in {TextsOn(b, d) : d \in {MaxDatePart(b)}}} : TRUE

\* get_latest_complete_local_day: the Europe/Dublin date of MAX(ts_utc);
\* NoDay stands for the RuntimeError raised when the table has no rows
get_latest_complete_local_day(b) ==
    IF DOMAIN b = {} THEN NoDay
    ELSE CHOOSE day \in {LocalOf(ParseUtc(max_ts)) \div MinutesPerDay :
                            max_ts \in {MaxTsUtc(b)}} : TRUE

\* the start_utc/end_utc strings of get_metric_series
SeriesWindow(start_date, end_date) ==
    [start_utc |-> <<start_date, 0, 0>>, end_utc |-> <<end_date + 1, 0, 0>>]

\* get_metric_series: the readings of one metric with start <= ts_utc < end,
\* ts_utc parsed with pd.to_datetime(utc=True)
get_metric_series(b, metric_code, start_date, end_date) ==
    {[ts_utc |-> ParseUtc(r.ts_utc), value |-> r.value] :
        r \in {q \in DOMAIN b :
                 /\ q.metric_id = metric_map[metric_code]
                 /\ InWindow(q.ts_utc, SeriesWindow(start_date, end_date))}}

\* load_metric_history_for_prophet, after as_of_day has been resolved; an
\* empty result is the ValueError
load_metric_history_for_prophet(b, metric_code, train_days, as_of_day) ==
    get_metric_series(b, metric_code, as_of_day - (train_days - 1), as_of_day)

\* to_prophet_frame: ds is ts_utc.tz_convert(None), the naive UTC reading
to_prophet_frame(df_history) ==
    {[ds |-> r.ts_utc, y |-> r.value] : r \in df_history}

\* fit_prophet raises on fewer than 96 rows, whatever the library does
CanFit(df_prophet) == Cardinality(df_prophet) >= MinTrainRows

\* pd.date_range(start=start, periods=96, freq="15min")
Steps96(start) == {start + SlotMinutes * (k - 1) : k \in 1..ForecastSteps}

\* _build_next_96_steps_from_training
NextSteps(df_prophet) ==
    UNION {Steps96(last_ds + SlotMinutes) :
              last_ds \in {MaxOf({r.ds : r \in df_prophet})}}

\* the frame the try block returns
PrimaryFrame(df_prophet, metric_code) ==
    {[ds |-> t, metric_code |-> metric_code, model_name |-> PROPHET] :
        t \in NextSteps(df_prophet)}

\* (df_prophet["ds"].max() + timedelta(minutes=15)).date()
FallbackDate(df_prophet) ==
    (MaxOf({r.ds : r \in df_prophet}) + SlotMinutes) \div MinutesPerDay

\* fallback_slot_median_next_day: the grid of pd.Timestamp(forecast_date)
FallbackFrame(df_prophet, metric_code) ==
    {[ds |-> t, metric_code |-> metric_code, model_name |-> FALLBACK] :
        t \in UNION {Steps96(forecast_date * MinutesPerDay) :
                        forecast_date \in {FallbackDate(df_prophet)}}}

\* range(max_retries + 1) has another pass after pass number attempt
MorePassesOneExtra(attempt, max_retries) == attempt <= max_retries
MorePasses(attempt, max_retries) == attempt < max_retries

FmIdle == [step |-> "idle", caller |-> "none", codes |-> <<>>,
           train_days |-> 0, as_of_day |-> NoDay, end_day |-> NoDay,
           latest_complete |-> NoDay, max_retries |-> 0, attempt |-> 0,
           fits |-> 0, sleeps |-> <<>>, history |-> {}, df |-> {},
           forecast_date |-> NoDay, outcome |-> "none"]

\* backfill_forecasts_for_range reaches one as_of_day; run_daily_forecast_pipeline
\* has finished its ETL; or forecast_next_day_for_metric_robust is called for
\* one metric
FmCall(caller, codes, train_days, as_of_day, max_retries) ==
    /\ fm.step = "idle"
    /\ \E latest \in {IF caller = "daily"
                      THEN get_latest_complete_local_day(fact_readings)
                      ELSE NoDay} :
       IF caller = "daily" /\ latest = NoDay
       THEN fm' = [fm EXCEPT !.step = "raised", !.caller = caller,
                             !.outcome = "RuntimeError"]
       ELSE fm' = [fm EXCEPT !.step = "load", !.caller = caller,
                             !.codes = codes, !.train_days = train_days,
                             !.as_of_day = as_of_day,
                             !.latest_complete = latest,
                             !.max_retries = max_retries]

\* forecast_next_day_for_metric_robust up to the loop, for the next metric code
FmLoad ==
    /\ fm.step = "load"
    /\ \E end_day \in {IF fm.as_of_day = NoDay
                       THEN get_latest_complete_local_day(fact_readings)
                       ELSE fm.as_of_day} :
       \E df_history \in {load_metric_history_for_prophet(
                             fact_readings, fm.codes[1], fm.train_days, end_day)} :
          IF end_day = NoDay
          THEN fm' = [fm EXCEPT !.step = "raised", !.outcome = "RuntimeError"]
          ELSE IF df_history = {}
          THEN fm' = [fm EXCEPT !.step = "raised", !.end_day = end_day,
                                !.outcome = "ValueError"]
          ELSE fm' = [fm EXCEPT !.step = "fit", !.end_day = end_day,
                                !.history = to_prophet_frame(df_history),
                                !.attempt = 0, !.fits = 0, !.sleeps = <<>>]

\* the state after the frame of one metric has been returned
FmReturned(frame) ==
    [fm EXCEPT !.df = @ \cup frame,
               !.codes = Tail(@),
               !.step = IF Len(fm.codes) > 1 THEN "load" ELSE "collected"]

\* one pass of the loop: fit and predict succeed and the frame is returned,
\* or an exception is caught and the loop sleeps before its next pass
FmAttempt(fitted) ==
    /\ fm.step = "fit"
    /\ IF fitted /\ CanFit(fm.history)
       THEN \E out \in {PrimaryFrame(fm.history, fm.codes[1])} :
               fm' = [FmReturned(out) EXCEPT !.fits = @ + 1]
       ELSE fm' = [fm EXCEPT
                !.fits = @ + 1,
                !.sleeps = IF fm.attempt < fm.max_retries
                           THEN Append(@, fm.attempt + 1) ELSE @,
                !.attempt = @ + 1,
                !.step = IF MorePasses(fm.attempt, fm.max_retries)
                         THEN "fit" ELSE "fallback"]

\* the code after the loop
FmFallback ==
    /\ fm.step = "fallback"
    /\ \E fb \in {FallbackFrame(fm.history, fm.codes[1])} :
          fm' = FmReturned(fb)

\* forecast_date = df_forecast["ds"].min().date()
BackfillForecastDate(df) == MinOf({r.ds : r \in df}) \div MinutesPerDay

\* _infer_forecast_date_from_df: NoDay stands for the ValueError raised when
\* ds spans more than one day
_infer_forecast_date_from_df(df) ==
    LET min_day == MinOf({r.ds : r \in df}) \div MinutesPerDay
        max_day == MaxOf({r.ds : r \in df}) \div MinutesPerDay
    IN IF min_day # max_day THEN NoDay ELSE min_day

\* the caller takes the frame of all metrics and derives the forecast date
\* its batches are stored under
FmForecastDate ==
    /\ fm.step = "collected"
    /\ \E date \in {IF fm.caller = "daily"
                    THEN _infer_forecast_date_from_df(fm.df)
                    ELSE BackfillForecastDate(fm.df)} :
          IF fm.caller = "direct"
          THEN fm' = [fm EXCEPT !.step = "done", !.outcome = "returned"]
          ELSE IF date = NoDay
          THEN fm' = [fm EXCEPT !.step = "raised", !.outcome = "ValueError"]
          ELSE fm' = [fm EXCEPT !.step = "done", !.forecast_date = date,
                                !.outcome = "stored"]

(***************************************************************************)
(* Specifications.                                                         *)
(***************************************************************************)
CalFixed == [day |-> 0, phase |-> "idle", expected_slots |-> 0,
             coverage |-> NoWindow, slice |-> NoWindow, delete |-> NoWindow]

DbInit ==
    /\ stg_readings = <<>>
    /\ fact_readings = EmptyBag
    /\ tx = NoTx
    /\ pc = Idle
    /\ last = NoCall
    /\ nstage = 0
    /\ ing = NoIngest
    /\ fact_forecasts = {}
    /\ fc = FcIdle
    /\ fr = FrIdle

Init == DbInit /\ cal = CalFixed /\ rq = RqIdle /\ fm = FmIdle

Stage == \E b \in Batches, rd \in Readings :
            stage_readings(TidyFrame(b, rd[1]), "UTC", rd[2])
Daily == \E d \in Days : DailyCall(d)
RangeStart == \E r \in Ranges : RangeCall(r[1], r[2])
Insert == \E now \in PromoteClock : PromoteInsert(now)
InsertFails == \E now \in PromoteClock, n \in 0..MaxPartial : PromoteInsertFails(now, n)
Backfill == \E days \in 1..MaxBackfillDays : BackfillStart(days)
BackfillFetches ==
    \E b \in Batches, fields \in FieldShapes, rd \in Readings :
        BackfillFetch(b, fields, rd[1], rd[2])

Next ==
    /\ \/ Stage
       \/ Daily
       \/ RangeStart
       \/ PromoteBuild
       \/ Insert
       \/ InsertFails
       \/ PromoteCommit
       \/ Crash
       \/ RangeReturn
       \/ Backfill
       \/ BackfillFetchFails
       \/ BackfillFetches
       \/ BackfillReturn
    /\ UNCHANGED <<fcvars, cal, rq, fm>>

Spec == Init /\ [][Next]_vars

CalendarInit == DbInit /\ CalInit /\ rq = RqIdle /\ fm = FmIdle

CalendarNext == (CalExpected \/ CalWindows) /\ UNCHANGED <<dbvars, rq, fm>>

SpecCalendar == CalendarInit /\ [][CalendarNext]_vars

RetryInit == DbInit /\ cal = CalFixed /\ RqInit /\ fm = FmIdle

RetryNext == (RqAttempt \/ RqExhausted) /\ UNCHANGED <<dbvars, cal, fm>>

SpecRetry == RetryInit /\ [][RetryNext]_vars

\* request_with_retry runs on: requests.get answers or raises within its
\* timeout and time.sleep returns, so a step that can be taken is taken
SpecRetryFair == RetryInit /\ [][RetryNext]_vars /\ WF_vars(RetryNext)

RetryNetInit == DbInit /\ cal = CalFixed /\ RqNetInit /\ fm = FmIdle

SpecRetryNet == RetryNetInit /\ [][RetryNext]_vars

\* Ingestion alone: direct stage_readings calls with frames of any timezone
\* and fetch_one_day calls with any payload
StageDirect ==
    \E b \in Batches, tz \in TzLabels, rd \in Readings :
        stage_readings(TidyFrame(b, rd[1]), tz, rd[2])

\* the payloads fetch_one_day is handed: those of Batches and one of the
\* fall-back day, whose hour from 01:00 to 02:00 local time occurs twice
IngestBatches ==
    Batches \cup {[day |-> FallBackDay, metric |-> "wind_actual", shape |-> "full"]}

Fetch ==
    \E b \in IngestBatches, fields \in FieldShapes, rd \in Readings :
        fetch_one_day(b, fields, rd[1], rd[2])

IngestNext == (StageDirect \/ Fetch) /\ UNCHANGED <<fcvars, cal, rq, fm>>

SpecIngest == Init /\ [][IngestNext]_vars

\* fetch_range over one or both days, with any payload for each day
FetchRanges == {<<SpringForwardDay, SpringForwardDay>>,
                <<SpringForwardDay, SpringForwardDay + 1>>,
                <<SpringForwardDay + 1, SpringForwardDay + 1>>}

FetchRangeStart == \E r \in FetchRanges : FetchRangeCall(r[1], r[2])

FetchRangeDays ==
    \E b \in Batches, fields \in FieldShapes, rd \in Readings :
        FetchRangeDay(b, fields, rd[1], rd[2])

FetchRangeNext ==
    /\ \/ FetchRangeStart
       \/ FetchRangeDays
       \/ FetchRangeRequestFails
       \/ FetchRangeExit
    /\ UNCHANGED <<fcvars, cal, rq, fm>>

SpecFetchRange == Init /\ [][FetchRangeNext]_vars

\* Data quality of one day: stage_readings is handed frames of the day with a
\* metric the dimension tables have or lack, and with the value of the second
\* row a number, NULL or text; run_daily_pipeline promotes the day
QualityDay == SpringForwardDay + 1
QualityMetrics == {"wind_actual", "wind_forecast"}
BadValues == {"none", "null", "text"}

\* the tidy frame of a day of one metric with the value of its second row
\* replaced
QualityFrame(metric, shape, value, bad) ==
    LET inst == BatchInstants([day |-> QualityDay, metric |-> metric,
                               shape |-> shape])
    IN  [k \in 1..Len(inst) |->
            [ts_utc |-> inst[k], metric |-> metric, region |-> DEFAULT_REGION,
             value |-> IF k = 2 /\ bad = "null" THEN NullValue
                       ELSE IF k = 2 /\ bad = "text" THEN TextValue
                       ELSE value]]

\* full days of either metric with any value, and a day with a gap
QualityFrames ==
    {QualityFrame(metric, "full", rd[1], bad) :
        metric \in QualityMetrics, rd \in Readings, bad \in BadValues}
    \cup {QualityFrame("wind_actual", "gap", rd[1], "null") : rd \in Readings}

QualityStage ==
    \E df \in QualityFrames, now \in Clock : stage_readings(df, "UTC", now)

QualityDaily == DailyCall(QualityDay)

QualityNext ==
    /\ \/ QualityStage
       \/ QualityDaily
       \/ PromoteBuild
       \/ Insert
       \/ PromoteCommit
    /\ UNCHANGED <<fcvars, cal, rq, fm>>

SpecQuality == Init /\ [][QualityNext]_vars

ForecastCalls ==
    \E df \in Frames, train_days \in TrainDays, model_name \in ModelNames :
        ForecastCall(df, ForecastDate, train_days, model_name, "ALL")
ForecastInsertFail == \E n \in 0..MaxPartial : ForecastInsertFails(n)

ForecastNext ==
    /\ \/ ForecastCalls
       \/ /\ \/ ForecastDelete
             \/ ForecastInsert
             \/ ForecastInsertFail
             \/ ForecastCommit
             \/ ForecastCrash
          /\ UNCHANGED fr
    /\ UNCHANGED <<etlvars, cal, rq, fm>>

SpecForecast == Init /\ [][ForecastNext]_vars

\* Forecast runs: the frames the forecaster hands to a caller, in UTC
RunFrames ==
    {ForecastFrame(v, neg, models, "UTC") :
        v \in ForecastValues, neg \in {"none", "yhat_lower"}, models \in ModelColumns}
    \cup {EmptyFrame}

ForecastRuns ==
    \E caller \in ForecastCallers, df \in RunFrames, train_days \in TrainDays :
        ForecastRunStart(caller, df, train_days)

ForecastRunNext ==
    /\ \/ ForecastRuns
       \/ ForecastRunStore
       \/ ForecastRunCollect
       \/ ForecastRunReturn
       \/ /\ \/ ForecastDelete
             \/ ForecastInsert
             \/ ForecastInsertFail
             \/ ForecastCommit
             \/ ForecastCrash
          /\ UNCHANGED fr
    /\ UNCHANGED <<etlvars, cal, rq, fm>>

SpecForecastRun == Init /\ [][ForecastRunNext]_vars

\* The forecaster over a Fact Store that holds the promoted days of a set of
\* local days around the spring change, all three metrics, every slot.
ForecasterDays == {SpringForwardDay - 1, SpringForwardDay, SpringForwardDay + 1}
AsOfDays == {SpringForwardDay - 1, SpringForwardDay}
TrainWindows == {1, 2}
MaxRetries == 0..DefaultMaxRetries

FactOfDays(S) ==
    LET rows == {InsertTuple([ts_utc |-> t, metric_id |-> m, region_id |-> 1,
                              value |-> 10], 3) :
                    t \in UNION {DateRange(AsUtc(StartLocal(d)), AsUtc(EndLocal(d))) :
                                    d \in S},
                    m \in {metric_map[metric_codes[i]] : i \in 1..Len(metric_codes)}}
    IN IF rows = {} THEN EmptyBag ELSE SetToBag(rows)

ForecasterInit ==
    /\ stg_readings = <<>>
    /\ \E S \in SUBSET ForecasterDays : fact_readings = FactOfDays(S)
    /\ tx = NoTx
    /\ pc = Idle
    /\ last = NoCall
    /\ nstage = 0
    /\ ing = NoIngest
    /\ fact_forecasts = {}
    /\ fc = FcIdle
    /\ fr = FrIdle
    /\ cal = CalFixed
    /\ rq = RqIdle
    /\ fm = FmIdle

FmBackfill == \E td \in TrainWindows, d \in AsOfDays :
                 FmCall("backfill", metric_codes, td, d, DefaultMaxRetries)
FmDaily == \E td \in TrainWindows :
              FmCall("daily", metric_codes, td, NoDay, DefaultMaxRetries)
FmDirect == \E i \in 1..Len(metric_codes), td \in TrainWindows, d \in AsOfDays,
               n \in MaxRetries :
               FmCall("direct", <<metric_codes[i]>>, td, d, n)
FmAttempts == \E fitted \in BOOLEAN : FmAttempt(fitted)

ForecasterNext ==
    /\ \/ FmBackfill
       \/ FmDaily
       \/ FmDirect
       \/ FmLoad
       \/ FmAttempts
       \/ FmFallback
       \/ FmForecastDate
    /\ UNCHANGED <<dbvars, cal, rq>>

SpecForecaster == ForecasterInit /\ [][ForecasterNext]_vars

\* every step of the forecaster is straight-line code of one process, which
\* runs on until it returns or raises
SpecForecasterFair ==
    ForecasterInit /\ [][ForecasterNext]_vars /\ WF_vars(ForecasterNext)

(***************************************************************************)
(* Properties of the pipeline (specification Spec).                        *)
(***************************************************************************)
\* the (timestamp_utc, metric_id, region_id, value) rows of a fact table
FactTuples(b) ==
    {<<r.ts_utc, r.metric_id, r.region_id, r.value>> : r \in DOMAIN b}

\* the instants of the local day: [start, end)
DayStart(day) == AsUtc(StartLocal(day))
DayEnd(day) == AsUtc(EndLocal(day))
InDay(ts, day) == DayStart(day) <= ParseUtc(ts) /\ ParseUtc(ts) < DayEnd(day)

\* the quarter hours of the local day
DaySlots(day) ==
    {t \in DayStart(day)..(DayEnd(day) - 1) : (t - DayStart(day)) % SlotMinutes = 0}

\* positions of the staging rows of the local day, and their groups
StagedAt(day) == {i \in 1..Len(stg_readings) : InDay(stg_readings[i].ts_utc, day)}
GroupOf(i) == <<stg_readings[i].metric_code, stg_readings[i].region_code>>
GroupsAt(day) == {GroupOf(i) : i \in StagedAt(day)}
TimestampsOf(g, day) ==
    {stg_readings[i].ts_utc : i \in {j \in StagedAt(day) : GroupOf(j) = g}}

\* C1: promoting a day again, right after a promotion of that day that
\* returned its rows and with staging unchanged, leaves the fact table with the
\* same (timestamp_utc, metric_id, region_id, value) rows and the same row
\* count; by induction the same holds for any number of consecutive calls.
C1_IdempotentPromotion ==
    [][(pc.step = "inserted" /\ InARow)
         => /\ FactTuples(fact_readings') = FactTuples(fact_readings)
            /\ BagCardinality(fact_readings') = BagCardinality(fact_readings)]_vars

\* the day has been promoted MaxRuns times in a row
C1_Witness ==
    /\ pc.step = "idle"
    /\ last.outcome = "ok"
    /\ last.runs = MaxRuns
    /\ BagCardinality(fact_readings) = last.inserted

\* C2: when a group staged for the day has fewer distinct timestamps than
\* the day has quarter hours, promote_day_delete_insert raises IncompleteDay
\* and the fact table, committed and as the connection sees it, is unchanged.
C2_CompletenessGating ==
    [][(/\ pc.step = "called"
        /\ \E g \in GroupsAt(pc.day) :
              Cardinality(TimestampsOf(g, pc.day))
                < (DayEnd(pc.day) - DayStart(pc.day)) \div SlotMinutes)
         => /\ last'.outcome = "IncompleteDay"
            /\ last'.day = pc.day
            /\ pc'.step \notin {"deleted", "inserted"}
            /\ fact_readings' = fact_readings
            /\ tx' = tx]_vars

\* a promotion was refused as incomplete while the fact table held rows
C2_Witness ==
    /\ pc.step = "idle"
    /\ last.outcome = "IncompleteDay"
    /\ last.day = SpringForwardDay
    /\ BagCardinality(fact_readings) > 0

\* rows of a fact table inside / outside the local day
RowsInDay(b, day) == {r \in DOMAIN b : InDay(r.ts_utc, day)}
RowsOffDay(b, day) == {r \in DOMAIN b : ~InDay(r.ts_utc, day)}

\* the canonical slice as (timestamp_utc, metric_id, region_id, value) rows
CanonTuples(canon) ==
    {<<StrfUtc(canon[k].ts_utc), canon[k].metric_id, canon[k].region_id,
       canon[k].value>> : k \in DOMAIN canon}

StagedReadings(day) ==
    {<<ParseUtc(stg_readings[i].ts_utc), stg_readings[i].metric_code,
       stg_readings[i].region_code, stg_readings[i].ingested_at,
       stg_readings[i].value>> : i \in StagedAt(day)}

Values == {rd[1] : rd \in Readings}

\* C4: in the canonical slice built for a day, every slot carries the value
\* of a staged reading of that slot whose ingested_at is the latest of the
\* slot, whatever the order of the rows in staging.
C4_LatestWriteWins ==
    pc.step = "deleted" =>
        LET S == StagedReadings(pc.day) IN
        \A x \in S :
            (\A c \in Clock, v \in Values :
                c > x[4] => <<x[1], x[2], x[3], c, v>> \notin S)
            => /\ <<x[1], x[2], x[3]>> \in DOMAIN pc.canon
               /\ \E v \in Values :
                     /\ <<x[1], x[2], x[3], x[4], v>> \in S
                     /\ pc.canon[<<x[1], x[2], x[3]>>].value = v

\* the first staging row was ingested later than a row staged after it for
\* the same slot, and the slice carries the value of the first row
C4_Witness ==
    /\ pc.step = "deleted"
    /\ Len(stg_readings) >= 2
    /\ LET a == stg_readings[1]
           k == <<ParseUtc(a.ts_utc), a.metric_code, a.region_code>>
       IN  /\ k \in DOMAIN pc.canon
           /\ \E j \in 2..Len(stg_readings) :
                 /\ stg_readings[j].ts_utc = a.ts_utc
                 /\ stg_readings[j].metric_code = a.metric_code
                 /\ stg_readings[j].region_code = a.region_code
                 /\ stg_readings[j].ingested_at < a.ingested_at
                 /\ stg_readings[j].value # a.value
           /\ pc.canon[k].value = a.value

\* no two rows of a fact table share (timestamp_utc, metric_id, region_id)
UniqueSlots(b) ==
    BagCardinality(b)
        = Cardinality({<<r.ts_utc, r.metric_id, r.region_id>> : r \in DOMAIN b})

\* C5: after any sequence of stagings, daily promotions and range
\* promotions the fact table holds at most one row per (timestamp_utc,
\* metric_id, region_id), committed and as the connection sees it.
C5_OneRowPerSlot ==
    /\ UniqueSlots(fact_readings)
    /\ UniqueSlots(tx.rows)

\* staging holds two readings of one slot and the day has been promoted twice
C5_Witness ==
    /\ pc.step = "idle"
    /\ last.outcome = "ok"
    /\ last.runs >= 2
    /\ Len(stg_readings) > last.inserted
    /\ \E j \in 2..Len(stg_readings) :
          /\ stg_readings[j].ts_utc = stg_readings[1].ts_utc
          /\ stg_readings[j].metric_code = stg_readings[1].metric_code
    /\ BagCardinality(fact_readings) > 0

\* C6: a non-empty canonical slice is returned for a day only if every
\* quarter hour of the day has a staged reading for every group staged for
\* the day.
C6_SliceOnlyIfEverySlotStaged ==
    pc.step = "deleted" =>
        \A g \in GroupsAt(pc.day) :
            \A t \in DaySlots(pc.day) :
                t \in {ParseUtc(ts) : ts \in TimestampsOf(g, pc.day)}

(***************************************************************************)
(* Properties of the calendar (specification SpecCalendar).                *)
(***************************************************************************)
\* C7: the expected slot count of a local day is 96 on an ordinary day,
\* 92 (fewer) on the spring-forward day and 100 (more) on the fall-back day.
C7_DstSlotCounts ==
    cal.phase \in {"counted", "windowed"} =>
        /\ cal.expected_slots =
              IF cal.day = SpringForwardDay THEN SpringSlots
              ELSE IF cal.day = FallBackDay THEN FallSlots
              ELSE OrdinarySlots
        /\ SpringSlots < OrdinarySlots
        /\ OrdinarySlots < FallSlots

\* the slots of the spring-forward day have been counted
C7_Witness ==
    /\ cal.phase = "counted"
    /\ cal.day = SpringForwardDay
    /\ cal.expected_slots = SpringSlots

\* C8: the expected slot count of a day is the number of quarter-hour
\* aligned instants in [start_utc, end_utc), and the completeness check, the
\* slice building and the delete all use that same window.
C8_OneWindow ==
    cal.phase = "windowed" =>
        /\ cal.coverage = cal.slice
        /\ cal.slice = cal.delete
        /\ cal.expected_slots =
              Cardinality({t \in ParseUtc(cal.delete.start_utc)
                                   ..(ParseUtc(cal.delete.end_utc) - 1) :
                              t % SlotMinutes = 0})

\* the windows of the fall-back day have been derived
C8_Witness ==
    /\ cal.phase = "windowed"
    /\ cal.day = FallBackDay
    /\ cal.expected_slots = FallSlots
    /\ ParseUtc(cal.delete.end_utc) - ParseUtc(cal.delete.start_utc)
          = FallSlots * SlotMinutes

(***************************************************************************)
(* Properties of the fetcher (specification SpecRetry).                    *)
(***************************************************************************)
\* C9: against three 503 responses followed by a 200 the call returns the
\* response and does not end in RetriesExhausted; against four 503 responses
\* it ends in RetriesExhausted.
C9_RetryBudget ==
    rq.outcome # "running" =>
        /\ rq.script = <<503, 503, 503, 200>> => rq.outcome = "returned"
        /\ rq.script = <<503, 503, 503, 503>> => rq.outcome = "RetriesExhausted"

\* C10: a response that is neither a 200 nor a 5xx ends the call at once
\* with RequestFailed carrying the status and the first 200 characters of the
\* body: it is the last request issued and no backoff follows it.
C10_FailFast ==
    \A i \in 1..rq.requests :
        (rq.script[i] # 200 /\ (rq.script[i] < 500 \/ rq.script[i] > 599))
        => /\ rq.outcome = "RequestFailed"
           /\ rq.requests = i
           /\ Len(rq.sleeps) = i - 1
           /\ rq.err_status = rq.script[i]
           /\ rq.err_body = (IF rq.body_len < BodyHeadLen THEN rq.body_len
                                                           ELSE BodyHeadLen)

\* the second request was answered 404 with a body longer than 200 characters
C10_Witness ==
    /\ rq.outcome = "RequestFailed"
    /\ rq.requests = 2
    /\ rq.err_status = 404
    /\ rq.body_len > BodyHeadLen
    /\ rq.err_body = BodyHeadLen

(***************************************************************************)
(* Properties of ingestion (specifications Spec and SpecIngest).           *)
(***************************************************************************)
\* C11: staging is append-only: every step of staging and promotion, by
\* run_daily_pipeline or over a range, leaves every row staged before in
\* place and unchanged; a stage call only adds rows after them.
C11_StagingAppendOnly ==
    [][/\ Len(stg_readings') >= Len(stg_readings)
       /\ SubSeq(stg_readings', 1, Len(stg_readings)) = stg_readings]_vars

\* a second batch was staged for slots already staged, and a promotion ran
C11_Witness ==
    /\ nstage = MaxStages
    /\ last.outcome = "ok"
    /\ Len(stg_readings) > last.inserted
    /\ stg_readings[1].ts_utc = stg_readings[Len(stg_readings) - SpringSlots + 1].ts_utc
    /\ stg_readings[1].metric_code = stg_readings[Len(stg_readings)].metric_code
    /\ stg_readings[1].value # stg_readings[Len(stg_readings)].value

\* C12: a stage_readings call given a frame whose timestamps are naive or
\* in a zone other than UTC ends with NotUTC and adds no row to staging.
C12_NotUtcRejected ==
    [][(nstage' = nstage + 1 /\ ing'.op = "stage" /\ ing'.tz # "UTC")
         => /\ ing'.outcome = "NotUTC"
            /\ ing'.rows = 0
            /\ stg_readings' = stg_readings]_vars

\* a Europe/Dublin frame was rejected after another frame had been staged
C12_Witness ==
    /\ ing.op = "stage"
    /\ ing.tz = "Europe/Dublin"
    /\ ing.outcome = "NotUTC"
    /\ Len(stg_readings) > 0

\* C20: a fetch_one_day call whose payload carries a field name outside
\* WIND_ACTUAL, SOLAR_ACTUAL, DEMAND_ACTUAL, SYSTEM_DEMAND ends with
\* UnknownMetric and stages no row of the payload.
C20_UnknownMetricFailsFast ==
    [][(/\ nstage' = nstage + 1
        /\ ing'.op = "fetch"
        /\ ing'.fieldnames \ {"WIND_ACTUAL", "SOLAR_ACTUAL", "DEMAND_ACTUAL",
                              "SYSTEM_DEMAND"} # {})
         => /\ ing'.outcome = "UnknownMetric"
            /\ ing'.rows = 0
            /\ stg_readings' = stg_readings]_vars

\* a payload mixing a known and an unknown field name was refused
C20_Witness ==
    /\ ing.op = "fetch"
    /\ ing.outcome = "UnknownMetric"
    /\ "WIND_ACTUAL" \in ing.fieldnames
    /\ "WIND_FORECAST" \in ing.fieldnames

\* C17: an empty canonical slice is a no-op. A call of
\* promote_day_delete_insert finds the slice empty exactly when staging holds
\* no reading in the day's window, and then it returns 0 and leaves the fact
\* table and the pending transaction as they were.
C17_EmptySliceNoOp ==
    [][pc.step = "called" =>
         LET nothing == StagedAt(pc.day) = {} IN
         /\ (pc'.step # "deleted" /\ last'.outcome = "empty") <=> nothing
         /\ nothing => /\ last'.day = pc.day
                       /\ last'.inserted = 0
                       /\ fact_readings' = fact_readings
                       /\ tx' = tx]_vars

\* a day with nothing staged was promoted while the fact table held another
\* day's rows
C17_Witness ==
    /\ last.outcome = "empty"
    /\ StagedAt(last.day) = {}
    /\ Len(stg_readings) > 0
    /\ FactTuples(fact_readings) # {}

\* a multi-day loop is running: promote_range_delete_insert or backfill_range
InLoop == pc.caller \in {"range", "backfill"}

\* this step ends the processing of day pc.day inside a multi-day loop
DayEnds ==
    /\ InLoop
    /\ pc.step \in {"fetch", "called", "deleted", "inserted"}
    /\ pc'.caller = pc.caller
    /\ pc'.day # pc.day \/ pc'.step = "end"

\* the processing of the day that ends in this step raised an error: the
\* fetch failed, or the promotion did
DayRaised ==
    IF pc.step = "fetch" THEN ing'.outcome # "ok"
                         ELSE last'.outcome \notin {"ok", "empty"}

\* the rows the day that ends in this step inserted
DayRows == IF pc.step = "fetch" THEN 0 ELSE last'.inserted

\* C18: partial-failure semantics. promote_range_delete_insert and
\* backfill_range go through the days of the range in ascending order whether
\* or not a day fails: every day that ends is followed by the next day until
\* the last one, days_attempted counts the days entered, days_succeeded grows
\* by one exactly for a day that raised no error and rows_total grows by the
\* rows that day inserted; so at the end days_attempted is the number of days
\* in the range.
C18_PartialFailure ==
    /\ [](InLoop =>
            /\ pc.summary.days_attempted =
                   (IF pc.step \in {"end", "exited"} THEN pc.until ELSE pc.day)
                   - pc.from + 1
            /\ pc.summary.days_succeeded <= pc.summary.days_attempted)
    /\ [][DayEnds =>
            /\ IF pc.day < pc.until
               THEN /\ pc'.day = pc.day + 1
                    /\ pc'.step \in {"fetch", "called"}
                    /\ pc'.summary.days_attempted = pc.summary.days_attempted + 1
               ELSE /\ pc'.step = "end"
                    /\ pc'.summary.days_attempted = pc.summary.days_attempted
            /\ pc'.summary.days_succeeded =
                   pc.summary.days_succeeded + (IF DayRaised THEN 0 ELSE 1)
            /\ pc'.summary.rows_total =
                   pc.summary.rows_total + (IF DayRaised THEN 0 ELSE DayRows)]_vars

\* a range of two days has ended whose first day failed and whose second day
\* was promoted
C18_Witness ==
    /\ pc.step = "end"
    /\ pc.caller = "range"
    /\ pc.summary.days_attempted = 2
    /\ pc.summary.days_succeeded = 1
    /\ pc.summary.rows_total > 0
    /\ last.day = pc.until
    /\ last.outcome = "ok"

\* C19: when a multi-day loop has ended with a failed day, its summary holds
\* the attempted and the succeeded counts and a failure list with an entry
\* for every failed day.
C19_SummaryListsFailures ==
    (InLoop /\ pc.step = "end"
        /\ pc.summary.days_succeeded < pc.summary.days_attempted)
    => /\ {"days_attempted", "days_succeeded"} \subseteq DOMAIN pc.summary
       /\ "failures" \in DOMAIN pc.summary

\* the idempotency key of a forecast row
KeyOf(r) == <<r.forecast_date, r.region_code, r.model_name, r.train_days>>

\* the key a store_forecast_dataframe call is made with
CallKey(a) == <<a.forecast_date, a.region_code, a.model_name, a.train_days>>

\* the rows of the set rows stored under key
Under(rows, key) == {r \in rows : KeyOf(r) = key}

\* the rows the last store wrote
Written == {fc.rows[k] : k \in 1..Len(fc.rows)}

\* some row of the frame has a negative yhat, yhat_lower or yhat_upper
HasNegative(df) ==
    \E k \in 1..Len(df.rows), col \in {"yhat", "yhat_lower", "yhat_upper"} :
        df.rows[k][col] < 0

\* C13: forecast idempotency. When a store has committed, the forecast store
\* holds under every key of the batch exactly the rows of that batch, whatever
\* was stored under the key before.
C13_ForecastIdempotent ==
    (fc.step = "idle" /\ fc.outcome = "ok")
    => \A r \in Written :
          Under(fact_forecasts, KeyOf(r)) = Under(Written, KeyOf(r))

\* a second batch has replaced a first batch of the same key that had other
\* values at the same timestamps
C13_Witness ==
    /\ fc.step = "idle"
    /\ fc.outcome = "ok"
    /\ fc.ncall = 2
    /\ \E old \in fc.deleted, new \in Written :
          /\ KeyOf(old) = KeyOf(new)
          /\ old.ts_utc = new.ts_utc
          /\ old.yhat # new.yhat
    /\ \A r \in Written : KeyOf(r) = CallKey(fc.args)

\* C14: domain rejection. A call whose frame has a negative yhat, yhat_lower
\* or yhat_upper is rejected before anything is deleted or inserted: the
\* forecast store is unchanged, and the error is DomainViolation when the
\* call's train_days is valid.
C14_DomainRejection ==
    [][(fc.step = "called" /\ HasNegative(fc.df)) =>
          /\ fc'.step = "idle"
          /\ fc'.outcome \in {"DomainViolation", "InvalidTrainDays"}
          /\ fc.args.train_days > 0 => fc'.outcome = "DomainViolation"
          /\ fc'.tx.open = FALSE
          /\ fact_forecasts' = fact_forecasts]_vars

\* a batch was rejected as DomainViolation while rows were stored under its key
C14_Witness ==
    /\ fc.outcome = "DomainViolation"
    /\ fc.step = "idle"
    /\ Under(fact_forecasts, CallKey(fc.args)) # {}

\* C15: the DELETE of a store_forecast_dataframe call removes exactly the
\* stored rows whose key is the call's (forecast_date, region_code,
\* model_name, train_days) and no row of another key.
C15_DeletesCallKey ==
    [][(fc.step = "called" /\ fc'.step = "deleted") =>
          fc'.deleted = Under(fact_forecasts, CallKey(fc.args))]_vars

\* C16: the replace is atomic. The committed forecast store changes only when
\* a store commits, and then to the old rows without the deleted ones plus the
\* whole batch; when the insert fails after the DELETE, the store is as
\* before, the rows that were deleted included.
C16_ForecastAtomic ==
    [][/\ fact_forecasts' # fact_forecasts =>
             /\ fc.step = "inserted"
             /\ fc'.outcome = "ok"
             /\ fact_forecasts' = (fact_forecasts \ fc.deleted) \cup Written
       /\ (fc.step = "deleted" /\ fc'.outcome = "InsertError") =>
             /\ fact_forecasts' = fact_forecasts
             /\ fc.deleted \subseteq fact_forecasts']_vars

\* an insert failed after the DELETE had removed stored rows, and those rows
\* are in the store
C16_Witness ==
    /\ fc.step = "idle"
    /\ fc.outcome = "InsertError"
    /\ fc.deleted # {}
    /\ fc.deleted \subseteq fact_forecasts

(***************************************************************************)
(* Properties of the canonical slice (specifications SpecQuality, Spec).   *)
(***************************************************************************)
\* staging rows i and j are readings of the same slot
SameSlot(i, j) ==
    /\ stg_readings[i].ts_utc = stg_readings[j].ts_utc
    /\ stg_readings[i].metric_code = stg_readings[j].metric_code
    /\ stg_readings[i].region_code = stg_readings[j].region_code

\* staging row i is the reading selected for its slot: none of the slot has a
\* later ingested_at, and none with the same ingested_at was staged after it
IsSelected(i, staged) ==
    \A j \in staged :
        SameSlot(i, j) =>
            \/ stg_readings[j].ingested_at < stg_readings[i].ingested_at
            \/ /\ stg_readings[j].ingested_at = stg_readings[i].ingested_at
               /\ j <= i

\* every group staged for the day has a reading for as many timestamps as
\* the day has quarter hours
DayComplete(day) ==
    \A g \in GroupsAt(day) :
        Cardinality(TimestampsOf(g, day)) = Cardinality(DaySlots(day))

\* the value of staging row i is a number
IsNumber(i) == stg_readings[i].value >= 0

\* C21: on a complete day build_canonical_slice_for_day fails with
\* InvalidValue exactly when the reading selected for some slot has a value
\* that is NULL or no number; a NULL in a superseded reading of a slot does
\* not reject the day; when a selected value is invalid the fact table and the
\* connection's transaction are left as they were.
C21_InvalidValue ==
    [][pc.step = "called" =>
         LET staged == StagedAt(pc.day)
             bad == \E i \in {k \in staged : ~IsNumber(k)} : IsSelected(i, staged)
         IN  /\ (pc'.step # "deleted" /\ last'.outcome = "InvalidValue")
                   <=> (DayComplete(pc.day) /\ bad)
             /\ bad => /\ pc'.step # "deleted"
                       /\ last'.outcome \in {"InvalidValue", "IncompleteDay"}
                       /\ fact_readings' = fact_readings
                       /\ tx' = tx]_vars

\* a day was rejected for an invalid selected value while the fact table held
\* the rows of an earlier promotion of it
C21_Witness ==
    /\ pc.step = "idle"
    /\ last.outcome = "InvalidValue"
    /\ last.day = QualityDay
    /\ BagCardinality(fact_readings) > 0

\* C22: when a reading selected for the day carries a metric_code or
\* region_code the dimension tables do not have, the call never returns a
\* slice: it raises UnknownDimension (IncompleteDay or InvalidValue when one of
\* the earlier checks fails first) and nothing is written to the fact table.
C22_UnknownDimension ==
    [][pc.step = "called" =>
         LET staged == StagedAt(pc.day)
             unknown == \E i \in {k \in staged :
                                     \/ stg_readings[k].metric_code \notin DOMAIN metric_map
                                     \/ stg_readings[k].region_code \notin DOMAIN region_map} :
                            IsSelected(i, staged)
             invalid == \E i \in {k \in staged : ~IsNumber(k)} : IsSelected(i, staged)
         IN  unknown =>
                /\ pc'.step # "deleted"
                /\ last'.outcome \in {"UnknownDimension", "InvalidValue", "IncompleteDay"}
                /\ (DayComplete(pc.day) /\ ~invalid) => last'.outcome = "UnknownDimension"
                /\ fact_readings' = fact_readings
                /\ tx' = tx]_vars

\* a day with readings of a metric without dimension entry, staged next to
\* complete readings of a known metric, was rejected
C22_Witness ==
    /\ pc.step = "idle"
    /\ last.outcome = "UnknownDimension"
    /\ \E i, j \in StagedAt(last.day) :
          /\ stg_readings[i].metric_code \in DOMAIN metric_map
          /\ stg_readings[j].metric_code \notin DOMAIN metric_map

(***************************************************************************)
(* Ambiguous local timestamps (specification SpecIngest).                  *)
(***************************************************************************)
\* the staging rows without a timestamp
NullTimestampRows == {i \in 1..Len(stg_readings) : stg_readings[i].ts_utc = NullText}

\* C23: a payload with a wall-clock reading of the fall-back overlap ends in
\* a failure of the fetch, normalise and stage path, so staging never holds a
\* reading whose timestamp is NULL.
C23_AmbiguousRejected == NullTimestampRows = {}

(***************************************************************************)
(* The callers of the forecast store (specification SpecForecastRun).      *)
(***************************************************************************)
\* the model identifiers of the rows of a frame
ModelsOf(df) == {df.rows[k].model_name : k \in 1..Len(df.rows)}

\* the key the run stores the rows of model m under
RunKey(m) == <<InferForecastDate(fr.df), "ALL", m, fr.train_days>>

\* what a stored row and a row of a frame in UTC say about a slot
StoredContent(r) == <<r.ts_utc, r.metric_code, r.yhat, r.yhat_lower, r.yhat_upper>>
FrameContent(r) == <<StrfUtc(r.ds), r.metric_code, r.yhat, r.yhat_lower, r.yhat_upper>>

\* the rows of the run's forecast that carry model m
PartitionOf(m) == {k \in 1..Len(fr.df.rows) : fr.df.rows[k].model_name = m}

\* C24: a caller hands store_forecast_dataframe one call per model identifier
\* of the forecast, each with the rows of that model only and the model as
\* model_name; when the run has returned, the rows stored under each model's
\* key are exactly that model's rows of the forecast.
C24_PartitionPerModel ==
    /\ []((fr.step = "idle" /\ fr.outcome = "ok") =>
            /\ Len(fr.summaries) = Cardinality(ModelsOf(fr.df))
            /\ \A m \in ModelsOf(fr.df) :
                  {StoredContent(r) : r \in Under(fact_forecasts, RunKey(m))}
                      = {FrameContent(fr.df.rows[k]) : k \in PartitionOf(m)})
    /\ [][(fr.step = "loop" /\ fr.current = NoModel /\ fr'.current # NoModel) =>
             /\ fc'.args.model_name = fr'.current
             /\ fc'.df.rows # <<>>
             /\ fc'.df.rows = SelectSeq(fr.df.rows,
                                  LAMBDA r : r.model_name = fr'.current)
             /\ \A i \in 1..Len(fr.summaries) :
                   fr.summaries[i].model_name # fr'.current]_vars

\* the second run of a forecast with rows of both models has returned, and
\* the store holds rows under both keys
C24_Witness ==
    /\ fr.step = "idle"
    /\ fr.outcome = "ok"
    /\ fr.nrun = 2
    /\ Len(fr.summaries) = 2
    /\ ModelsOf(fr.df) = ModelNames
    /\ \A m \in ModelNames : Under(fact_forecasts, RunKey(m)) # {}

(***************************************************************************)
(* Empty days (specification Spec).                                        *)
(***************************************************************************)
\* C25: an empty day is valid. When the source returns no row for the day,
\* fetch_one_day returns 0 without raising and stages nothing, and
\* run_daily_pipeline returns 0 without promoting: staging, the fact table
\* and the transaction are as before and backfill_range counts the day as
\* succeeded with 0 rows.
C25_EmptyDayValid ==
    [][(/\ pc.step = "fetch"
        /\ ing'.op = "fetch"
        /\ ing'.outcome # "RequestFailed"
        /\ ing'.fieldnames = {}) =>
           /\ ing'.outcome = "ok"
           /\ ing'.rows = 0
           /\ stg_readings' = stg_readings
           /\ fact_readings' = fact_readings
           /\ tx' = tx
           /\ pc'.step \in {"fetch", "end"}
           /\ pc'.summary.days_succeeded = pc.summary.days_succeeded + 1
           /\ pc'.summary.rows_total = pc.summary.rows_total
           /\ pc'.summary.rows_by_day[pc.day] = 0]_vars

\* a backfill promoted the rows of its first day and found its second day
\* empty
C25_Witness ==
    /\ pc.step = "end"
    /\ pc.caller = "backfill"
    /\ ing.op = "fetch" /\ ing.outcome = "ok" /\ ing.rows = 0
    /\ pc.summary.days_succeeded = 2
    /\ pc.summary.rows_by_day[Yesterday] = 0
    /\ pc.summary.rows_by_day[Yesterday - 1] > 0
    /\ fact_readings # EmptyBag
    /\ stg_readings # <<>>

(***************************************************************************)
(* Ranges and window replacement (specification Spec).                     *)
(***************************************************************************)
\* C26: in promote_range_delete_insert the rows of a failed day's window are
\* at the end of the range what they were at its start. Every day is
\* attempted once, so this says: the committed fact table changes only when
\* the promotion of a day commits, and then only inside the window of that
\* day; the return of the range changes nothing.
C26_FailedDayWindowKept ==
    [][pc.caller = "range" =>
          \/ fact_readings' = fact_readings
          \/ /\ pc.step = "inserted"
             /\ RowsOffDay(fact_readings', pc.day) = RowsOffDay(fact_readings, pc.day)
             /\ \A r \in RowsOffDay(fact_readings, pc.day) :
                   fact_readings'[r] = fact_readings[r]]_vars

\* the rows of bag b outside the local day, with their multiplicities, are
\* those of bag a
SameOffDay(a, b, day) ==
    /\ RowsOffDay(a, day) = RowsOffDay(b, day)
    /\ \A r \in RowsOffDay(a, day) : a[r] = b[r]

SlotOf(i) ==
    <<ParseUtc(stg_readings[i].ts_utc), stg_readings[i].metric_code,
      stg_readings[i].region_code>>

\* C28: in the slice built after any sequence of stage_readings calls, the
\* value of every slot is the one written by the most recent stage call that
\* wrote the slot, that is by the last staging row of the slot.
C28_MostRecentStageWins ==
    pc.step = "deleted" =>
        LET staged == StagedAt(pc.day) IN
        \A k \in DOMAIN pc.canon :
            LET rows == {i \in staged : SlotOf(i) = k}
                newest == CHOOSE i \in rows : \A j \in rows : j <= i
            IN  pc.canon[k].value = stg_readings[newest].value

\* staging holds the readings of a day twice: the rows of the second
\* stage_readings call repeat those of the first, slot by slot and value by
\* value, with an ingested_at that is not earlier
Restaged(stg) ==
    /\ Len(stg) > 0
    /\ Len(stg) % 2 = 0
    /\ LET n == Len(stg) \div 2 IN
       \A i \in 1..n :
          /\ stg[n + i].ts_utc = stg[i].ts_utc
          /\ stg[n + i].metric_code = stg[i].metric_code
          /\ stg[n + i].region_code = stg[i].region_code
          /\ stg[n + i].value = stg[i].value
          /\ stg[n + i].ingested_at >= stg[i].ingested_at

\* what build_canonical_slice_for_day answers, as content
SliceContent(stg, day) ==
    LET canon == build_canonical_slice_for_day(stg, day) IN
    [status |-> canon.status, rows |-> CanonTuples(canon.rows)]

\* C29: duplicate ingestion is harmless. A stage_readings call that stages
\* the readings of the day again, same slots and values and an ingested_at
\* that is not earlier, changes neither the completeness report nor the
\* content of the canonical slice; and a promotion after it leaves the fact
\* table with the rows, as (timestamp_utc, metric_id, region_id, value), that
\* the promotion before it left.
C29_DuplicateIngestionHarmless ==
    /\ [][(nstage = 1 /\ nstage' = 2 /\ Restaged(stg_readings')) =>
             /\ distinct_slot_coverage(stg_readings', QualityDay)
                   = distinct_slot_coverage(stg_readings, QualityDay)
             /\ SliceContent(stg_readings', QualityDay)
                   = SliceContent(stg_readings, QualityDay)]_vars
    /\ [][(/\ pc.step = "inserted"
            /\ Restaged(stg_readings)
            /\ RowsInDay(fact_readings, pc.day) # {}) =>
             /\ FactTuples(fact_readings') = FactTuples(fact_readings)
             /\ BagCardinality(fact_readings') = BagCardinality(fact_readings)]_vars

\* the day was promoted, its readings were staged again one second later,
\* and the second promotion has written its rows
C29_Witness ==
    /\ pc.step = "inserted"
    /\ pc.day = QualityDay
    /\ Restaged(stg_readings)
    /\ stg_readings[Len(stg_readings)].ingested_at > stg_readings[1].ingested_at
    /\ Cardinality(RowsInDay(fact_readings, QualityDay)) = OrdinarySlots
    /\ Cardinality(RowsInDay(tx.rows, QualityDay)) = OrdinarySlots

(***************************************************************************)
(* Termination of the retry loop (specification SpecRetryFair).            *)
(***************************************************************************)
\* C30: request_with_retry always terminates. Whatever the source answers,
\* the call issues at most MAX_RETRIES requests and comes to an end, either
\* returning a response whose status is 200 or raising.
C30_RetryTerminates ==
    /\ [](rq.requests <= MAX_RETRIES)
    /\ <>(rq.outcome \in {"returned", "RequestFailed", "RetriesExhausted"})
    /\ [](rq.outcome = "returned" => rq.script[rq.requests] = 200)
    /\ [][rq.outcome # "running" => rq' = rq]_vars

\* the source answered every request with 503 and the call raised after
\* MAX_RETRIES requests
C30_Witness ==
    /\ rq.outcome = "RetriesExhausted"
    /\ rq.requests = MAX_RETRIES
    /\ Len(rq.sleeps) = MAX_RETRIES
    /\ \A i \in 1..Len(rq.script) : rq.script[i] = 503

(***************************************************************************)
(* Backoff of the retry loop (specification SpecRetry).                    *)
(***************************************************************************)
\* C31: within one request_with_retry call the delay waited after the i-th
\* 5xx response is the i-th entry of the backoff sequence, one delay is
\* waited per 5xx response, the delays waited are strictly increasing, and
\* the sequence has an entry for every attempt that can occur.
C31_Backoff ==
    /\ Len(BACKOFF_S) >= MAX_RETRIES
    /\ rq.attempt <= Len(BACKOFF_S)
    /\ Len(rq.sleeps) = Cardinality({i \in 1..rq.requests : IsServerError(rq.script[i])})
    /\ \A i \in 1..Len(rq.sleeps) :
          /\ i <= Len(BACKOFF_S)
          /\ rq.sleeps[i] = BACKOFF_S[i]
          /\ IsServerError(rq.script[i])
    /\ \A i, j \in 1..Len(rq.sleeps) : i < j => rq.sleeps[i] < rq.sleeps[j]

\* two 503 responses were waited out and the third request was answered 200
C31_Witness ==
    /\ rq.outcome = "returned"
    /\ rq.requests = 3
    /\ rq.sleeps = <<BACKOFF_S[1], BACKOFF_S[2]>>

(***************************************************************************)
(* fetch_range (specification SpecFetchRange).                             *)
(***************************************************************************)
\* C32: fetch_range processes every day of its range. When fetch_one_day
\* fails for a day that is not the last, the failure is caught and the loop
\* goes on with the next day; the loop is left only after the last day.
C32_FetchRangeContinues ==
    [][(pc.caller = "fetch_range" /\ pc.step = "fetching") =>
          /\ pc.day < pc.until =>
                (pc'.step = "fetching" /\ pc'.day = pc.day + 1)
          /\ pc'.step # "fetching" => pc.day = pc.until]_vars

\* the forecaster has returned or raised
FmDone == fm.step \in {"done", "raised"}

\* the rows one pass or the fallback has just returned for its metric
FrameReturned == fm'.df \ fm.df

ModelNamesOf(df, code) == {r.model_name : r \in {q \in df : q.metric_code = code}}

\* C33: forecast_next_day_for_metric_robust makes at most max_retries + 1
\* primary attempts; the frame a pass of the loop returns is tagged
\* "prophet_v1" in every row and ends the attempts; the fallback runs only
\* after max_retries + 1 failed attempts and its frame is tagged
\* "fallback_slot_median_v1" in every row; no metric ever has rows of both
\* models; and the call always ends.
C33_RetryThenFallback ==
    /\ [](/\ fm.fits <= fm.max_retries + 1
          /\ fm.step = "fallback" => fm.fits = fm.max_retries + 1
          /\ \A i \in 1..Len(metric_codes) :
                Cardinality(ModelNamesOf(fm.df, metric_codes[i])) <= 1)
    /\ [][/\ (fm.step = "fit" /\ fm'.df # fm.df) =>
                /\ fm'.step # "fit"
                /\ Cardinality(FrameReturned) = ForecastSteps
                /\ \A r \in FrameReturned :
                      r.model_name = PROPHET /\ r.metric_code = fm.codes[1]
          /\ (fm.step = "fit" /\ fm'.df = fm.df) =>
                /\ fm'.fits = fm.fits + 1
                /\ fm'.step = "fit" <=> fm'.fits <= fm.max_retries
          /\ fm.step = "fallback" =>
                /\ Cardinality(FrameReturned) = ForecastSteps
                /\ \A r \in FrameReturned :
                      r.model_name = FALLBACK /\ r.metric_code = fm.codes[1]
         ]_vars
    /\ <>FmDone

\* a direct call whose three attempts all failed has returned the fallback frame
C33_Witness ==
    /\ fm.caller = "direct"
    /\ fm.step = "done"
    /\ fm.max_retries = DefaultMaxRetries
    /\ fm.fits = DefaultMaxRetries + 1
    /\ fm.sleeps = <<1, 2>>
    /\ Cardinality(fm.df) = ForecastSteps
    /\ \A r \in fm.df : r.model_name = FALLBACK
\* the Europe/Dublin date of a naive UTC reading of the training frame
LocalDayOf(ds) == LocalOf(ds) \div MinutesPerDay

\* C34: the history handed to the oracle for as_of_day D holds only readings
\* of local days up to D, never a reading of local day D + 1.
C34_NoLeakage ==
    \A r \in fm.history : LocalDayOf(r.ds) <= fm.end_day

\* C35: the forecast trained on data ending on local day D is stored under
\* forecast_date = D + 1, by the backfill for its as_of_day D and by the daily
\* run for the latest complete local day D.
C35_StoredUnderNextDay ==
    fm.outcome = "stored" => fm.forecast_date = fm.end_day + 1

\* the (metric_id, region_id) pairs with a committed row in the local day
FactGroupsIn(day) ==
    {<<r.metric_id, r.region_id>> : r \in RowsInDay(fact_readings, day)}

\* the committed Fact Store holds a row of the pair at every expected slot
FullyCovered(g, day) ==
    \A t \in DaySlots(day) :
        \E r \in RowsInDay(fact_readings, day) :
            /\ <<r.metric_id, r.region_id>> = g
            /\ ParseUtc(r.ts_utc) = t

\* C36: for every local day and every (metric, region) pair with at least one
\* committed Fact Store row in the day's window, the Fact Store holds a row
\* for every expected slot of the day.
C36_NoPartialDay ==
    \A day \in Days : \A g \in FactGroupsIn(day) : FullyCovered(g, day)

\* two UTC windows share no instant
Disjoint(v, w) ==
    \/ ~TextLess(v.start_utc, w.end_utc)
    \/ ~TextLess(w.start_utc, v.end_utc)

\* C37: the UTC window of a local day is not empty and ends where the window
\* of the next local day starts, and it shares no instant with the window any
\* other local day's promotion selects its rows from, so the DELETE of one day
\* never removes a row another day's promotion inserted.
C37_WindowsPartition ==
    cal.phase = "windowed" =>
        /\ TextLess(cal.delete.start_utc, cal.delete.end_utc)
        /\ cal.delete.end_utc = DeleteWindow(cal.day + 1).start_utc
        /\ cal.day > 0 => cal.delete.start_utc = DeleteWindow(cal.day - 1).end_utc
        /\ \A e \in CalDays \ {cal.day} :
              /\ Disjoint(cal.delete, SliceWindow(e))
              /\ Disjoint(cal.delete, DeleteWindow(e))

\* the day before the clocks go forward: its window ends at UTC midnight and
\* the window of the short day that follows ends 23 hours later
C37_Witness ==
    /\ cal.phase = "windowed"
    /\ cal.day = SpringForwardDay - 1
    /\ cal.delete.end_utc = <<SpringForwardDay, 0, 0>>
    /\ DeleteWindow(SpringForwardDay).end_utc = <<SpringForwardDay, 23, 0>>
    /\ DeleteWindow(SpringForwardDay + 1).start_utc = <<SpringForwardDay, 23, 0>>

\* the keys (timestamp_utc, metric_id, region_id) of a fact table inside the
\* window of the local day
FactKeysIn(b, day) ==
    {<<ParseUtc(r.ts_utc), r.metric_id, r.region_id>> : r \in RowsInDay(b, day)}

\* the slots staged for the local day, under the codes they were staged with
StagedSlotsIn(stg, day) ==
    {<<ParseUtc(stg[i].ts_utc), stg[i].metric_code, stg[i].region_code>> :
        i \in {j \in 1..Len(stg) : InDay(stg[j].ts_utc, day)}}

\* a promotion of the day in progress commits
PromotionCommits ==
    /\ pc.step = "inserted"
    /\ pc'.step # "inserted"
    /\ fact_readings' = tx.rows

\* C38: a successful promotion leaves in the day's window exactly the keys of
\* the slots staged for the day, a stage call never removes a staged slot,
\* and so the keys in the window after a successful promotion include the
\* keys that were there before it: re-promotion never loses a key.
C38_RepromotionKeepsKeys ==
    /\ [][PromotionCommits =>
            /\ FactKeysIn(fact_readings', pc.day) =
                  {<<k[1], metric_map[k[2]], region_map[k[3]]>> :
                      k \in StagedSlotsIn(stg_readings, pc.day)}
            /\ FactKeysIn(fact_readings, pc.day)
                  \subseteq FactKeysIn(fact_readings', pc.day)]_vars
    /\ [][stg_readings' # stg_readings =>
            \A d \in Days : StagedSlotsIn(stg_readings, d)
                               \subseteq StagedSlotsIn(stg_readings', d)]_vars

\* the day was promoted with one metric staged, the other metric was staged
\* afterwards, and the second promotion is about to commit both
C38_Witness ==
    /\ pc.step = "inserted"
    /\ pc.day = SpringForwardDay
    /\ nstage = MaxStages
    /\ Cardinality(RowsInDay(fact_readings, SpringForwardDay)) = SpringSlots
    /\ Cardinality(RowsInDay(tx.rows, SpringForwardDay)) = 2 * SpringSlots
    /\ FactKeysIn(fact_readings, SpringForwardDay)
          \subseteq FactKeysIn(tx.rows, SpringForwardDay)

\* the 5xx responses among the first n answers of the source
ServerErrorsBefore(n) == {j \in 1..n : IsServerError(rq.script[j])}

\* C39: when requests.get raises instead of returning a response, on any
\* attempt, request_with_retry ends with that exception: the request is not
\* repeated and no backoff delay is waited for it.
C39_NetworkFailurePropagates ==
    /\ \A i \in 1..rq.requests :
          rq.script[i] = NoResponse =>
              /\ rq.outcome = "RequestException"
              /\ rq.requests = i
              /\ Len(rq.sleeps) = Cardinality(ServerErrorsBefore(i - 1))
              /\ Len(rq.sleeps) = i - 1
    /\ rq.outcome = "RequestException" =>
          /\ rq.requests >= 1
          /\ rq.script[rq.requests] = NoResponse

\* the second request, sent after a 503 and its backoff, timed out
C39_Witness ==
    /\ rq.outcome = "RequestException"
    /\ rq.requests = 2
    /\ rq.script[1] = 503
    /\ rq.script[2] = NoResponse
    /\ rq.sleeps = <<BACKOFF_S[1]>>

\* two rows of the forecast store for one slot of one metric under the same
\* forecast_date, region_code and train_days
SameForecastSlot(r, q) ==
    /\ r.forecast_date = q.forecast_date
    /\ r.region_code = q.region_code
    /\ r.train_days = q.train_days
    /\ r.ts_utc = q.ts_utc
    /\ r.metric_code = q.metric_code

\* C40: after any sequence of forecast runs for the same forecast_date,
\* region_code and train_days, the forecast store holds at most one row per
\* (timestamp_utc, metric_code).
C40_OneRowPerSlot ==
    \A r \in fact_forecasts : \A q \in fact_forecasts :
        SameForecastSlot(r, q) => r = q
====
